---- MODULE Spec2Model ----
(***************************************************************************)
(* Persistence core of the vector-search engine: byte-level models of the  *)
(* point-to-values store, the token-counts file, the dense-vector deletion *)
(* bitmap and the mmap text index, with their legacy migrations.           *)
(*                                                                         *)
(* A file is a record [len, nz]: its length and the map from the offsets   *)
(* of its non-zero bytes to those bytes (every other byte is 0).  Offsets  *)
(* are 0-based as in the source.  Integers wider than 24 bits cannot be    *)
(* held as TLC integers, so a decoded u64/u32 is its exact value when it is *)
(* below 2^24 and the sentinel Huge otherwise; every file of the model is  *)
(* shorter than 2^24 bytes, so a Huge offset is out of bounds exactly as   *)
(* the real value is.  Values that are only copied or compared (i64        *)
(* payloads, usize token counts) are kept as their big-endian byte tuples. *)
(***************************************************************************)
EXTENDS Integers, Sequences, FiniteSets, TLC

\* ------------------------------------------------------------------ bounds

MaxPoints == 2
MaxValues == 2
MaxOpens == 3

\* ------------------------------------------------------------- byte files

Huge == 256 * 256 * 256

Reverse(s) == [k \in 1..Len(s) |-> s[Len(s) + 1 - k]]

Zeros(n) == [k \in 1..n |-> 0]

Rd(f, i) == IF i \in DOMAIN f.nz THEN f.nz[i] ELSE 0

Bytes(f, a, n) == [k \in 1..n |-> Rd(f, a + k - 1)]

Wr(f, a, bs) ==
    LET rng == a..(a + Len(bs) - 1)
        val(i) == IF i \in rng THEN bs[i - a + 1] ELSE Rd(f, i)
        dom == {i \in (DOMAIN f.nz) \cup rng : val(i) # 0}
    IN  [len |-> f.len, nz |-> [i \in dom |-> val(i)]]

ZeroFile(n) == [len |-> n, nz |-> [i \in {} |-> 0]]

\* No file at the path
Absent == [len |-> -1, nz |-> [i \in {} |-> 0]]

\* <[u8]>::reverse on mmap[a..a+n)
ReverseInPlace(f, a, n) == Wr(f, a, Reverse(Bytes(f, a, n)))

\* u64::to_le_bytes / u32::to_le_bytes of a value below 2^24, n bytes wide
ToLE(v, n) == [k \in 1..n |-> IF k = 1 THEN v % 256
                              ELSE IF k = 2 THEN (v \div 256) % 256
                              ELSE IF k = 3 THEN (v \div 65536) % 256
                              ELSE 0]

ToBE(v, n) == Reverse(ToLE(v, n))

\* u64::from_le / u32::from_le_bytes
FromLE(bs) == IF \E k \in 4..Len(bs) : bs[k] # 0
              THEN Huge
              ELSE bs[1] + 256 * bs[2] + 65536 * bs[3]

FromBE(bs) == FromLE(Reverse(bs))

\* ------------------------------------------------ point-to-values: format

PADDING_SIZE == 4096

\* size_of::<HeaderDisk>() and size_of::<MmapRangeDisk>(): two u64 each
HeaderDiskSize == 16

RangeDiskSize == 16

ValueKinds == {"int", "str"}

Endians == {"little", "big"}

\* MmapValue::mmapped_size: an i64 is 8 bytes, a GeoPoint two f64, a string
\* its u32 length and body
mmapped_size(T, v) == IF T = "int" THEN 8 ELSE IF T = "geo" THEN 16 ELSE Len(v) + 4

\* The two f64 of a GeoPoint, each with its bytes reversed
SwapGeo(v) == Reverse(SubSeq(v, 1, 8)) \o Reverse(SubSeq(v, 9, 16))

\* The bytes of one value as a big-endian host lays them out in memory
EncodeValueHostOrder(T, v, e) ==
    IF T \in {"int", "geo"} THEN v ELSE ToBE(Len(v), 4) \o v

\* The bytes of one value; write_to_mmap writes them little-endian, the
\* legacy big-endian writers wrote them in host order.
EncodeValue(T, v, e) ==
    IF T = "int"
    THEN (IF e = "little" THEN Reverse(v) ELSE v)
    ELSE IF T = "geo"
    THEN (IF e = "little" THEN SwapGeo(v) ELSE v)
    ELSE (IF e = "little" THEN ToLE(Len(v), 4) ELSE ToBE(Len(v), 4)) \o v

EncodeU64(v, e) == IF e = "little" THEN ToLE(v, 8) ELSE ToBE(v, 8)

\* MmapValue::write_to_mmap into mmap[off..]; None when the slice is short
write_to_mmap(T, v, f, off, e) ==
    IF off > f.len \/ off + mmapped_size(T, v) > f.len
    THEN [ok |-> FALSE, f |-> f]
    ELSE [ok |-> TRUE, f |-> Wr(f, off, EncodeValue(T, v, e))]

\* std::str::from_utf8 on the bytes the model uses (ASCII)
from_utf8_ok(bs) == \A k \in 1..Len(bs) : bs[k] < 128

\* MmapValue::read_from_mmap on mmap[off..]; the little-endian host's i64
\* reader is a zero-copy reference and needs an aligned address.
read_from_mmap(T, host, f, off) ==
    IF T = "int"
    THEN IF off + 8 > f.len \/ (host = "little" /\ off % 8 # 0)
         THEN [ok |-> FALSE, v |-> <<>>, size |-> 0]
         ELSE [ok |-> TRUE, v |-> Reverse(Bytes(f, off, 8)), size |-> 8]
    ELSE IF T = "geo"
    THEN IF off + 16 > f.len
         THEN [ok |-> FALSE, v |-> <<>>, size |-> 0]
         ELSE [ok |-> TRUE, v |-> SwapGeo(Bytes(f, off, 16)), size |-> 16]
    ELSE IF off + 4 > f.len
         THEN [ok |-> FALSE, v |-> <<>>, size |-> 0]
         ELSE LET size == FromLE(Bytes(f, off, 4))
              IN  IF size >= Huge \/ off + 4 + size > f.len
                  THEN [ok |-> FALSE, v |-> <<>>, size |-> 0]
                  ELSE LET body == Bytes(f, off + 4, size)
                       IN  IF from_utf8_ok(body)
                           THEN [ok |-> TRUE, v |-> body, size |-> size + 4]
                           ELSE [ok |-> FALSE, v |-> <<>>, size |-> 0]

\* The same, with the length prefix of a string left as it was
swap_without_prefix(T, f, off) ==
    IF T = "int"
    THEN IF off + 8 > f.len
         THEN [ok |-> FALSE, f |-> f, size |-> 0]
         ELSE [ok |-> TRUE, f |-> ReverseInPlace(f, off, 8), size |-> 8]
    ELSE IF T = "geo"
    THEN IF off + 16 > f.len
         THEN [ok |-> FALSE, f |-> f, size |-> 0]
         ELSE [ok |-> TRUE, f |-> Wr(f, off, SwapGeo(Bytes(f, off, 16))),
               size |-> 16]
    ELSE IF off + 4 > f.len
         THEN [ok |-> FALSE, f |-> f, size |-> 0]
         ELSE LET len == FromBE(Bytes(f, off, 4))
              IN  [ok |-> TRUE, f |-> f,
                   size |-> IF len >= Huge THEN Huge ELSE 4 + len]

\* MmapValue::swap_legacy_be_value_in_place on mmap[off..]
swap_legacy_be_value_in_place(T, f, off) ==
    IF T = "int"
    THEN IF off + 8 > f.len
         THEN [ok |-> FALSE, f |-> f, size |-> 0]
         ELSE [ok |-> TRUE, f |-> ReverseInPlace(f, off, 8), size |-> 8]
    ELSE IF T = "geo"
    THEN IF off + 16 > f.len
         THEN [ok |-> FALSE, f |-> f, size |-> 0]
         ELSE [ok |-> TRUE, f |-> Wr(f, off, SwapGeo(Bytes(f, off, 16))),
               size |-> 16]
    ELSE IF off + 4 > f.len
         THEN [ok |-> FALSE, f |-> f, size |-> 0]
         ELSE LET len == FromBE(Bytes(f, off, 4))
              IN  [ok |-> TRUE, f |-> ReverseInPlace(f, off, 4),
                   size |-> IF len >= Huge THEN Huge ELSE 4 + len]

\* HeaderDisk::decode_le; pc32 is points_count as PointOffsetType (its low u32)
HeaderDecodeLe(f) ==
    [ranges_start |-> FromLE(Bytes(f, 0, 8)),
     points_count |-> FromLE(Bytes(f, 8, 8)),
     pc32 |-> FromLE(Bytes(f, 8, 4))]

HeaderDecodeBe(f) ==
    [ranges_start |-> FromBE(Bytes(f, 0, 8)),
     points_count |-> FromBE(Bytes(f, 8, 8)),
     pc32 |-> FromBE(Bytes(f, 12, 4))]

RECURSIVE SumSizes(_, _)
SumSizes(T, vals) ==
    IF vals = <<>> THEN 0
    ELSE mmapped_size(T, Head(vals)) + SumSizes(T, Tail(vals))

RECURSIVE ValuesSize(_, _)
ValuesSize(T, iter) ==
    IF iter = <<>> THEN 0
    ELSE SumSizes(T, Head(iter).vals) + ValuesSize(T, Tail(iter))

RECURSIVE MaxPointsCount(_)
MaxPointsCount(iter) ==
    IF iter = <<>> THEN 0
    ELSE LET rest == MaxPointsCount(Tail(iter))
             here == Head(iter).id + 1
         IN  IF here > rest THEN here ELSE rest

RECURSIVE WriteValues(_, _, _, _, _)
WriteValues(T, vals, f, off, e) ==
    IF vals = <<>> THEN [ok |-> TRUE, f |-> f, off |-> off]
    ELSE LET w == write_to_mmap(T, Head(vals), f, off, e)
         IN  IF ~w.ok THEN [ok |-> FALSE, f |-> w.f, off |-> off]
             ELSE WriteValues(T, Tail(vals), w.f,
                              off + mmapped_size(T, Head(vals)), e)

RECURSIVE WritePoints(_, _, _, _, _)
WritePoints(T, iter, f, off, e) ==
    IF iter = <<>> THEN [ok |-> TRUE, f |-> f]
    ELSE LET w == WriteValues(T, Head(iter).vals, f, off, e)
             range_offset == PADDING_SIZE + Head(iter).id * RangeDiskSize
         IN  IF ~w.ok \/ range_offset + RangeDiskSize > f.len
             THEN [ok |-> FALSE, f |-> w.f]
             ELSE WritePoints(T, Tail(iter),
                      Wr(w.f, range_offset,
                         EncodeU64(off, e) \o EncodeU64(Len(Head(iter).vals), e)),
                      w.off, e)

\* MmapPointToValues::from_iter, parameterised by the byte order it emits:
\* "little" is the code, "big" the layout a big-endian host wrote before
\* canonicalisation (the fixtures of the legacy tests).
WriteFile(T, iter, e) ==
    LET points_count == MaxPointsCount(iter)
        ranges_size == points_count * RangeDiskSize
        file_size == PADDING_SIZE + ranges_size + ValuesSize(T, iter)
        f0 == Wr(ZeroFile(file_size), 0,
                 EncodeU64(PADDING_SIZE, e) \o EncodeU64(points_count, e))
    IN  WritePoints(T, iter, f0, PADDING_SIZE + ranges_size, e)

from_iter(T, iter) == WriteFile(T, iter, "little")

LegacyBeFile(T, iter) == WriteFile(T, iter, "big").f

\* --------------------------------------------- point-to-values: migration

\* The loop state of migrate_legacy_be_in_place; pc names its next step.
MigInit(header_be) ==
    [pc |-> "h0", points_count |-> header_be.points_count, point_id |-> 0,
     start |-> 0, count |-> 0, value_offset |-> 0]

MigDone(m) == m.pc \in {"fin", "err"}

\* One step of migrate_legacy_be_in_place: at most one in-place byte swap.
\*   h0, h1  the two header fields
\*   range   read range record point_id as big-endian, swap its start field
\*   r1      swap its count field
\*   val     swap the next value of the range, or leave the range
MigStep(T, f, m) ==
    LET range_offset == PADDING_SIZE + m.point_id * RangeDiskSize
    IN  CASE m.pc = "h0" ->
               [f |-> ReverseInPlace(f, 0, 8), m |-> [m EXCEPT !.pc = "h1"]]
          [] m.pc = "h1" ->
               [f |-> ReverseInPlace(f, 8, 8), m |-> [m EXCEPT !.pc = "range"]]
          [] m.pc = "range" ->
               IF m.point_id >= m.points_count
               THEN [f |-> f, m |-> [m EXCEPT !.pc = "fin"]]
               ELSE IF range_offset + RangeDiskSize > f.len
               THEN [f |-> f, m |-> [m EXCEPT !.pc = "err"]]
               ELSE [f |-> ReverseInPlace(f, range_offset, 8),
                     m |-> [m EXCEPT !.pc = "r1",
                                     !.start = FromBE(Bytes(f, range_offset, 8)),
                                     !.count = FromBE(Bytes(f, range_offset + 8, 8))]]
          [] m.pc = "r1" ->
               [f |-> ReverseInPlace(f, range_offset + 8, 8),
                m |-> [m EXCEPT !.pc = "val", !.value_offset = m.start]]
          [] m.pc = "val" ->
               IF m.count = 0
               THEN [f |-> f, m |-> [m EXCEPT !.pc = "range",
                                              !.point_id = m.point_id + 1]]
               ELSE IF m.value_offset > f.len
               THEN [f |-> f, m |-> [m EXCEPT !.pc = "err"]]
               ELSE LET s == swap_legacy_be_value_in_place(T, f, m.value_offset)
                        next == m.value_offset + s.size
                    IN  IF ~s.ok
                        THEN [f |-> f, m |-> [m EXCEPT !.pc = "err"]]
                        ELSE [f |-> s.f,
                              m |-> [m EXCEPT !.count = m.count - 1,
                                              !.value_offset =
                                                  IF next >= Huge THEN Huge ELSE next]]
          [] OTHER -> [f |-> f, m |-> m]

\* migrate_legacy_be_in_place run to its return
RECURSIVE migrate_legacy_be_in_place(_, _, _)
migrate_legacy_be_in_place(T, f, m) ==
    IF MigDone(m) THEN [f |-> f, m |-> m]
    ELSE LET s == MigStep(T, f, m)
         IN  migrate_legacy_be_in_place(T, s.f, s.m)

NoHeader == [ranges_start |-> 0, points_count |-> 0, pc32 |-> 0]

\* The header re-read that ends the migrating branch of open
OpenReread(f) ==
    LET header_le == HeaderDecodeLe(f)
    IN  IF f.len >= HeaderDiskSize /\ header_le.ranges_start = PADDING_SIZE
        THEN [status |-> "ok", path |-> "migrated", header |-> header_le]
        ELSE [status |-> "err", path |-> "migrated", header |-> NoHeader]

\* The same without the rejection of an unknown header
OpenClassifyNoReject(f) ==
    IF f.len < HeaderDiskSize THEN "reject"
    ELSE IF HeaderDecodeLe(f).ranges_start = PADDING_SIZE THEN "fast"
    ELSE "migrate"

\* How open classifies the file from its header: the fast path, the legacy
\* migration, or a rejection.
OpenClassify(f) ==
    IF f.len < HeaderDiskSize THEN "reject"
    ELSE IF HeaderDecodeLe(f).ranges_start = PADDING_SIZE THEN "fast"
    ELSE IF HeaderDecodeBe(f).ranges_start # PADDING_SIZE THEN "reject"
    ELSE "migrate"

\* MmapPointToValues::open as one call: the file it leaves and the handle
PtvOpenCall(T, f) ==
    LET class == OpenClassify(f)
    IN  IF class = "reject"
        THEN [f |-> f, h |-> [status |-> "err", path |-> "reject", header |-> NoHeader]]
        ELSE IF class = "fast"
        THEN [f |-> f, h |-> [status |-> "ok", path |-> "fast",
                              header |-> HeaderDecodeLe(f)]]
        ELSE LET r == migrate_legacy_be_in_place(T, f, MigInit(HeaderDecodeBe(f)))
             IN  IF r.m.pc = "err"
                 THEN [f |-> r.f, h |-> [status |-> "err", path |-> "migrated",
                                         header |-> NoHeader]]
                 ELSE [f |-> r.f, h |-> OpenReread(r.f)]

\* MmapPointToValues::get_range
get_range(f, header, point_id) ==
    LET range_offset == header.ranges_start + point_id * RangeDiskSize
    IN  IF point_id < header.pc32 /\ range_offset + RangeDiskSize <= f.len
        THEN [some |-> TRUE,
              start |-> FromLE(Bytes(f, range_offset, 8)),
              count |-> FromLE(Bytes(f, range_offset + 8, 8))]
        ELSE [some |-> FALSE, start |-> 0, count |-> 0]

\* The successors iterator of get_values: it ends at the first failed read
RECURSIVE ReadValues(_, _, _, _, _)
ReadValues(T, host, f, start, count) ==
    IF count = 0 \/ start > f.len THEN <<>>
    ELSE LET r == read_from_mmap(T, host, f, start)
         IN  IF ~r.ok THEN <<>>
             ELSE <<r.v>> \o ReadValues(T, host, f, start + r.size, count - 1)

\* MmapPointToValues::get_values, collected; None when the point has no range
get_values(T, host, f, header, point_id) ==
    LET range == get_range(f, header, point_id)
    IN  IF range.some
        THEN [some |-> TRUE, vals |-> ReadValues(T, host, f, range.start, range.count)]
        ELSE [some |-> FALSE, vals |-> <<>>]

\* ------------------------------------------------------------------ state

VARIABLES
    ptvT,       \* the value type T of the point-to-values store
    ptvHost,    \* target_endian of the host that opens the file
    ptvIter,    \* the logical input the file was written from
    ptvWritten, \* the byte order the file was written in
    ptvFile,    \* point_to_values.bin
    ptvLog,     \* the calls of open made so far, in order (sequential runs)
    ptvThr,     \* the threads inside open (interrupted and concurrent runs)
    tcHost,     \* target_endian of the host that opens the counts file
    tcCounts,   \* the token counts the counts file was written from
    tcWritten,  \* "little"/"big": a legacy file of that host; "new": created
    tcFile,     \* point_to_tokens_count.dat at its path
    tcLog,      \* the calls of PointToTokensCount::open made so far
    tcCr,       \* a running PointToTokensCount::create: pc, i, its mapping
    dnNum,      \* MmapDenseVectors::num_vectors
    dnBits,     \* the deletion bitslice: the indices of its set bits
    dnCount,    \* MmapDenseVectors::deleted_count
    dnLast,     \* the last delete call: key, outcome, the bit before it
    dnCalls,    \* the number of calls made on the dense store
    txBuild,    \* "debug" (overflow checks) or "release" (wrapping arithmetic)
    txDocs,     \* the documents the text index was created from, per point
    txHasPos,   \* has_positions: postings with positions
    txCounts,   \* the slots of point_to_tokens_count.dat
    txBits,     \* deleted_points.dat: the indices of its set bits
    txPending,  \* the buffered, unflushed updates of the deletion bitmap
    txActive,   \* MmapInvertedIndex::active_points_count
    txAlive,    \* FALSE once a call on the handle has panicked
    txGen,      \* the number of the open that made the current handle
    txLast      \* the last remove call: point, outcome

ptvVars == <<ptvT, ptvHost, ptvIter, ptvWritten, ptvFile, ptvLog, ptvThr>>

tcVars == <<tcHost, tcCounts, tcWritten, tcFile, tcLog, tcCr>>

dnVars == <<dnNum, dnBits, dnCount, dnLast, dnCalls>>

txVars == <<txBuild, txDocs, txHasPos, txCounts, txBits, txPending, txActive,
            txAlive, txGen, txLast>>

\* The stores added below: graph links
VARIABLES
    glFormat,   \* the GraphLinksFormat the file is written and loaded in
    glEdges,    \* the edges the file was serialized from
    glKind,     \* how the file at the path was produced
    glFile,     \* <graph_links>.bin
    glTel,      \* the process-wide fallback-load counters
    glLoads,    \* the number of loads made so far
    glLast      \* the last call of GraphLinks::load_from_file

glVars == <<glFormat, glEdges, glKind, glFile, glTel, glLoads, glLast>>

\* Dense vectors: the files MmapDenseVectors::open is given
VARIABLES
    dvVectors,  \* the file at vectors_path
    dvDeleted,  \* the file at deleted_path
    dvDim,      \* the dim argument of open
    dvElem,     \* size_of::<T>()
    dvLog       \* the calls of open made so far, in order

dvVars == <<dvVectors, dvDeleted, dvDim, dvElem, dvLog>>

\* Sparse index: InvertedIndexCompressedMmap over index.dat and its config
VARIABLES
    spW,        \* the weight type W
    spHost,     \* the byte order of the host
    spBuild,    \* "debug" when integer overflow panics, "release" when it wraps
    spPad,      \* the byte the host's memory holds in struct padding
    spIndex,    \* the postings of the in-memory index
    spFile,     \* index.dat
    spConfig,   \* inverted_index_config.json
    spKind,     \* how the file at the path came to its bytes
    spH,        \* the open handle: its decoded postings on a big-endian host
    spLast      \* the last call and what it returned

spVars == <<spW, spHost, spBuild, spPad, spIndex, spFile, spConfig, spKind, spH, spLast>>

\* Token counts: the opens of one counts file running side by side
VARIABLES
    tcOrig,     \* the counts file before the first open
    tcOpens     \* each running call of PointToTokensCount::open

coVars == <<tcOrig, tcOpens>>

\* Scalars: a value given to stable_hash or to the storage conversions
VARIABLES
    cvHost,     \* target_endian of the host
    cvWord,     \* size_of::<usize>() of the host
    cvValue,    \* the value: its type and its bytes, most significant first
    cvLast      \* the last call made on the value and what it produced

cvVars == <<cvHost, cvWord, cvValue, cvLast>>

\* Dense vectors: one vectors file opened on a host of either byte order
VARIABLES
    drMulti,    \* MULTI_MMAP_IS_SUPPORTED
    drH,        \* per host, the handle MmapDenseVectors::open returned
    drLast      \* the last get_vector_opt: key, access pattern, result per host

drVars == <<drMulti, drH, drLast>>

\* Sparse index: convert_and_save step by step, with loads of its directory
VARIABLES
    swPc,       \* the position of the running convert_and_save
    swBuf,      \* the bytes its BufWriter holds
    swPos,      \* the number of bytes the BufWriter has written to the file
    swDurable,  \* index.dat as stable storage holds it
    swSeen      \* the last load of the directory: its outcome, the file it mapped

swVars == <<swPc, swBuf, swPos, swDurable, swSeen>>

\* The operations modelled call by call, step by step
restVars == <<coVars, cvVars, drVars, swVars>>

extVars == <<glVars, dvVars, spVars, restVars>>

vars == <<ptvVars, tcVars, dnVars, txVars, extVars>>

\* ------------------------------------------------- point-to-values: inputs

IntValues == {<<0, 0, 0, 0, 0, 0, 0, 11>>,
              <<255, 255, 255, 255, 255, 255, 255, 252>>}

StrValues == {<<97, 98>>, <<99>>}

\* GeoPoint values: (lon 6.0, lat 2.0) and (lon 4.0, lat 3.0), each f64 as
\* its bit pattern, most significant byte first
GeoValues == {<<64, 24, 0, 0, 0, 0, 0, 0, 64, 0, 0, 0, 0, 0, 0, 0>>,
              <<64, 16, 0, 0, 0, 0, 0, 0, 64, 8, 0, 0, 0, 0, 0, 0>>}

ValuesOf(T) == IF T = "int" THEN IntValues
               ELSE IF T = "geo" THEN GeoValues ELSE StrValues

SeqsUpTo(S, n) == UNION {[1..k -> S] : k \in 0..n}

\* The values of one point: up to MaxValues of them, the two values of the
\* kind in turn, starting from either
PointValues(T) ==
    {[j \in 1..k |-> IF j % 2 = 1 THEN first
                     ELSE CHOOSE v \in ValuesOf(T) : v # first] :
        first \in ValuesOf(T), k \in 0..MaxValues}

\* Inputs that give every point id 0..n-1 once, in order
PtvInputs(T) ==
    UNION {{[i \in 1..n |-> [id |-> i - 1, vals |-> vs[i]]] :
               vs \in [1..n -> PointValues(T)]} :
           n \in 0..MaxPoints}

Threads == {1, 2}

IdleThread == [pc |-> "idle", opens |-> 0, m |-> MigInit(NoHeader),
               h |-> [status |-> "none", path |-> "none", header |-> NoHeader]]

PtvIdle ==
    /\ ptvT = "int"
    /\ ptvHost = "little"
    /\ ptvIter = <<>>
    /\ ptvWritten = "little"
    /\ ptvFile = Absent
    /\ ptvLog = <<>>
    /\ ptvThr = [t \in Threads |-> IdleThread]

\* What a handle serves for the points 0..MaxPoints (one past the last id)
Served(T, host, f, h) ==
    [p \in 0..MaxPoints |-> get_values(T, host, f, h.header, p)]

\* ------------------------------------- point-to-values: sequential opens

PtvStart ==
    /\ ptvT \in ValueKinds
    /\ ptvHost \in Endians
    /\ ptvIter \in PtvInputs(ptvT)
    /\ ptvWritten \in Endians
    /\ ptvFile = WriteFile(ptvT, ptvIter, ptvWritten).f
    /\ ptvLog = <<>>
    /\ ptvThr = [t \in Threads |-> IdleThread]

\* open(path): the whole call, its flush included
PtvOpen ==
    /\ ptvFile # Absent
    /\ Len(ptvLog) < MaxOpens
    /\ LET r == PtvOpenCall(ptvT, ptvFile)
       IN  /\ ptvFile' = r.f
           /\ ptvLog' = Append(ptvLog,
                  [h |-> r.h, before |-> ptvFile,
                   served |-> IF r.h.status = "ok"
                              THEN Served(ptvT, ptvHost, r.f, r.h)
                              ELSE <<>>])
    /\ UNCHANGED <<ptvT, ptvHost, ptvIter, ptvWritten, ptvThr>>
    /\ UNCHANGED <<tcVars, dnVars, txVars, extVars>>

\* ---------------------------------------------------- token counts: format

\* b"pttc"
POINT_TO_TOKENS_COUNT_MAGIC == <<112, 116, 116, 99>>

POINT_TO_TOKENS_COUNT_VERSION == 1

POINT_TO_TOKENS_COUNT_HEADER_SIZE == 16

\* size_of::<usize>() on the 64-bit hosts the core supports
WordSize == 8

\* The number of words detect_legacy_counts_endian samples
SampleLimit == 256

\* A usize is kept as its 8 bytes, most significant first.
\* value > u32::MAX
OverU32(v) == \E k \in 1..4 : v[k] # 0

\* a < b on usize
UsizeLess(a, b) ==
    \E k \in 1..WordSize : a[k] < b[k] /\ \A j \in 1..(k - 1) : a[j] = b[j]

\* legacy_usize_from_le_bytes / legacy_usize_from_be_bytes
legacy_usize_from_le_bytes(chunk) == Reverse(chunk)

legacy_usize_from_be_bytes(chunk) == chunk

UsizeMax(S) ==
    IF S = {} THEN Zeros(WordSize)
    ELSE CHOOSE v \in S : \A w \in S : ~UsizeLess(v, w)

NativeEndian(host) == host

\* The same, sampling every word of the file
detect_legacy_counts_endian_whole(f, host) ==
    IF f.len = 0 THEN NativeEndian(host)
    ELSE LET sample == f.len \div WordSize
             le(i) == legacy_usize_from_le_bytes(Bytes(f, i * WordSize, WordSize))
             be(i) == legacy_usize_from_be_bytes(Bytes(f, i * WordSize, WordSize))
             max_le == UsizeMax({le(i) : i \in 0..(sample - 1)})
             max_be == UsizeMax({be(i) : i \in 0..(sample - 1)})
             over_u32_le == Cardinality({i \in 0..(sample - 1) : OverU32(le(i))})
             over_u32_be == Cardinality({i \in 0..(sample - 1) : OverU32(be(i))})
         IN  IF over_u32_le < over_u32_be THEN "little"
             ELSE IF over_u32_be < over_u32_le THEN "big"
             ELSE IF UsizeLess(max_le, max_be) THEN "little"
             ELSE IF UsizeLess(max_be, max_le) THEN "big"
             ELSE NativeEndian(host)

detect_legacy_counts_endian(f, host) ==
    IF f.len = 0 THEN NativeEndian(host)
    ELSE LET len == f.len \div WordSize
             sample == IF len < SampleLimit THEN len ELSE SampleLimit
             le(i) == legacy_usize_from_le_bytes(Bytes(f, i * WordSize, WordSize))
             be(i) == legacy_usize_from_be_bytes(Bytes(f, i * WordSize, WordSize))
             max_le == UsizeMax({le(i) : i \in 0..(sample - 1)})
             max_be == UsizeMax({be(i) : i \in 0..(sample - 1)})
             over_u32_le == Cardinality({i \in 0..(sample - 1) : OverU32(le(i))})
             over_u32_be == Cardinality({i \in 0..(sample - 1) : OverU32(be(i))})
         IN  IF over_u32_le < over_u32_be THEN "little"
             ELSE IF over_u32_be < over_u32_le THEN "big"
             ELSE IF UsizeLess(max_le, max_be) THEN "little"
             ELSE IF UsizeLess(max_be, max_le) THEN "big"
             ELSE NativeEndian(host)

\* The new-format file holding the u32 counts c[0..n-1], each given as its
\* four little-endian bytes
NewFormatFile(n, c) ==
    LET hdr == POINT_TO_TOKENS_COUNT_MAGIC
                 \o ToLE(POINT_TO_TOKENS_COUNT_VERSION, 4) \o ToLE(n, 8)
        size == POINT_TO_TOKENS_COUNT_HEADER_SIZE + 4 * n
        byte(i) == IF i < POINT_TO_TOKENS_COUNT_HEADER_SIZE THEN hdr[i + 1]
                   ELSE c[(i - POINT_TO_TOKENS_COUNT_HEADER_SIZE) \div 4]
                         [((i - POINT_TO_TOKENS_COUNT_HEADER_SIZE) % 4) + 1]
        dom == {i \in 0..(size - 1) : byte(i) # 0}
    IN  [len |-> size, nz |-> [i \in dom |-> byte(i)]]

\* u32::to_le_bytes of a usize that fits
U32LeBytes(v) == <<v[8], v[7], v[6], v[5]>>

\* The same, narrowing each count with a cast in place of try_into
migrate_legacy_unchecked(f, host) ==
    IF f.len % WordSize # 0 THEN [ok |-> FALSE, f |-> f]
    ELSE LET len == f.len \div WordSize
             detected == detect_legacy_counts_endian(f, host)
             value(i) == IF detected = "little"
                         THEN legacy_usize_from_le_bytes(Bytes(f, i * WordSize, WordSize))
                         ELSE legacy_usize_from_be_bytes(Bytes(f, i * WordSize, WordSize))
         IN  [ok |-> TRUE,
              f |-> NewFormatFile(len, [i \in 0..(len - 1) |-> U32LeBytes(value(i))])]

\* PointToTokensCount::migrate_legacy: the file at path afterwards.  The
\* rewrite goes through atomic_save, so an error leaves the file as it was.
migrate_legacy(f, host) ==
    IF f.len % WordSize # 0 THEN [ok |-> FALSE, f |-> f]
    ELSE LET len == f.len \div WordSize
             detected == detect_legacy_counts_endian(f, host)
             value(i) == IF detected = "little"
                         THEN legacy_usize_from_le_bytes(Bytes(f, i * WordSize, WordSize))
                         ELSE legacy_usize_from_be_bytes(Bytes(f, i * WordSize, WordSize))
         IN  IF \E i \in 0..(len - 1) : OverU32(value(i))
             THEN [ok |-> FALSE, f |-> f]
             ELSE [ok |-> TRUE,
                   f |-> NewFormatFile(len, [i \in 0..(len - 1) |-> U32LeBytes(value(i))])]

\* PointToTokensCount::validate_header
validate_header(f) ==
    IF f.len < POINT_TO_TOKENS_COUNT_HEADER_SIZE THEN [ok |-> FALSE, len |-> 0]
    ELSE IF Bytes(f, 0, 4) # POINT_TO_TOKENS_COUNT_MAGIC THEN [ok |-> FALSE, len |-> 0]
    ELSE IF FromLE(Bytes(f, 4, 4)) # POINT_TO_TOKENS_COUNT_VERSION
    THEN [ok |-> FALSE, len |-> 0]
    ELSE LET len == FromLE(Bytes(f, 8, 8))
         IN  IF len >= Huge \/ f.len # POINT_TO_TOKENS_COUNT_HEADER_SIZE + 4 * len
             THEN [ok |-> FALSE, len |-> 0]
             ELSE [ok |-> TRUE, len |-> len]

\* The same, looking for the magic in the reverse byte order
is_new_reversed_magic(f) ==
    f.len >= POINT_TO_TOKENS_COUNT_HEADER_SIZE
        /\ Bytes(f, 0, 4) = Reverse(POINT_TO_TOKENS_COUNT_MAGIC)

\* The header sniff of open: a file of at least header size starting with the magic
is_new(f) ==
    f.len >= POINT_TO_TOKENS_COUNT_HEADER_SIZE
        /\ Bytes(f, 0, 4) = POINT_TO_TOKENS_COUNT_MAGIC

\* PointToTokensCount::open as one call: the file it leaves and the handle
TcOpenCall(f, host) ==
    LET mig == IF is_new(f) THEN [ok |-> TRUE, f |-> f] ELSE migrate_legacy(f, host)
        path == IF is_new(f) THEN "fast" ELSE "migrated"
        v == validate_header(mig.f)
    IN  IF f.len < 0
        THEN [f |-> f, h |-> [status |-> "err", path |-> "stat", len |-> 0]]
        ELSE IF mig.ok /\ v.ok
        THEN [f |-> mig.f, h |-> [status |-> "ok", path |-> path, len |-> v.len]]
        ELSE [f |-> mig.f, h |-> [status |-> "err", path |-> path, len |-> 0]]

\* PointToTokensCount::get: the u32 slot decoded with from_le, as a usize
TcGet(f, h, idx) ==
    IF idx < h.len
    THEN [some |-> TRUE,
          v |-> Zeros(4) \o Reverse(Bytes(f, POINT_TO_TOKENS_COUNT_HEADER_SIZE + 4 * idx, 4))]
    ELSE [some |-> FALSE, v |-> Zeros(WordSize)]

\* PointToTokensCount::to_vec
TcToVec(f, h) == [i \in 1..h.len |-> TcGet(f, h, i - 1).v]

\* A legacy counts file: the counts as host-order words of the writing host
LegacyCountsFile(counts, e) ==
    LET n == Len(counts)
        byte(i) == IF e = "big" THEN counts[(i \div WordSize) + 1][(i % WordSize) + 1]
                   ELSE counts[(i \div WordSize) + 1][WordSize - (i % WordSize)]
        dom == {i \in 0..(n * WordSize - 1) : byte(i) # 0}
    IN  [len |-> n * WordSize, nz |-> [i \in dom |-> byte(i)]]

\* --------------------------------------------------- token counts: create

CreateInit == [pc |-> "ensure", i |-> 0]

CreateDone(cr) == cr.pc \in {"done", "err"}

\* One step of PointToTokensCount::create on its mapping of the target path:
\*   ensure   create_and_ensure_length: the zero-filled file of the final length
\*   magic, version, len   the three header fields
\*   count    the next count, narrowed to u32, or the end of the loop
CreateStep(map, cr, counts) ==
    LET n == Len(counts)
    IN  CASE cr.pc = "ensure" ->
               [map |-> ZeroFile(POINT_TO_TOKENS_COUNT_HEADER_SIZE + 4 * n),
                cr |-> [cr EXCEPT !.pc = "magic"]]
          [] cr.pc = "magic" ->
               [map |-> Wr(map, 0, POINT_TO_TOKENS_COUNT_MAGIC),
                cr |-> [cr EXCEPT !.pc = "version"]]
          [] cr.pc = "version" ->
               [map |-> Wr(map, 4, ToLE(POINT_TO_TOKENS_COUNT_VERSION, 4)),
                cr |-> [cr EXCEPT !.pc = "len"]]
          [] cr.pc = "len" ->
               [map |-> Wr(map, 8, ToLE(n, 8)), cr |-> [cr EXCEPT !.pc = "count"]]
          [] cr.pc = "count" ->
               IF cr.i >= n
               THEN [map |-> map, cr |-> [cr EXCEPT !.pc = "done"]]
               ELSE IF OverU32(counts[cr.i + 1])
               THEN [map |-> map, cr |-> [cr EXCEPT !.pc = "err"]]
               ELSE [map |-> Wr(map, POINT_TO_TOKENS_COUNT_HEADER_SIZE + 4 * cr.i,
                                U32LeBytes(counts[cr.i + 1])),
                     cr |-> [cr EXCEPT !.i = cr.i + 1]]
          [] OTHER -> [map |-> map, cr |-> cr]

\* PointToTokensCount::create run to its return
RECURSIVE create(_, _, _)
create(map, cr, counts) ==
    IF CreateDone(cr) THEN [map |-> map, cr |-> cr]
    ELSE LET s == CreateStep(map, cr, counts)
         IN  create(s.map, s.cr, counts)

\* The artifact a completed create(counts) leaves
CreatedFile(counts) == create(Absent, CreateInit, counts).map

\* ---------------------------------------------------- token counts: runs

MaxCounts == 2

CountValues == {<<0, 0, 0, 0, 0, 0, 0, 0>>,
                <<0, 0, 0, 0, 0, 0, 0, 5>>,
                <<0, 0, 0, 0, 99, 116, 116, 112>>,
                <<0, 0, 0, 1, 0, 0, 0, 0>>}

\* Up to MaxCounts counts, and a full sample of points without text
\* followed by at most one count
TcInputs ==
    SeqsUpTo(CountValues, MaxCounts) \cup
    {[i \in 1..SampleLimit |-> Zeros(WordSize)] \o tail :
        tail \in SeqsUpTo(CountValues, 1)}

AllFitU32(counts) == \A i \in 1..Len(counts) : ~OverU32(counts[i])

NoCreate == [pc |-> "none", i |-> 0, map |-> Absent, attached |-> FALSE]

TcIdle ==
    /\ tcHost = "little"
    /\ tcCounts = <<>>
    /\ tcWritten = "new"
    /\ tcFile = Absent
    /\ tcLog = <<>>
    /\ tcCr = NoCreate

TcStart ==
    /\ tcHost \in Endians
    /\ tcCounts \in TcInputs
    /\ tcWritten \in Endians \cup {"new"}
    /\ tcWritten = "new" => AllFitU32(tcCounts) /\ Len(tcCounts) <= MaxCounts
    /\ tcFile = IF tcWritten = "new" THEN CreatedFile(tcCounts)
                ELSE LegacyCountsFile(tcCounts, tcWritten)
    /\ tcLog = <<>>
    /\ tcCr = NoCreate

\* PointToTokensCount::open(path): the whole call
TcOpen ==
    /\ tcFile # Absent
    /\ tcCr = NoCreate
    /\ Len(tcLog) < MaxOpens
    /\ LET r == TcOpenCall(tcFile, tcHost)
       IN  /\ tcFile' = r.f
           /\ tcLog' = Append(tcLog,
                  [h |-> r.h, before |-> tcFile, crpc |-> "none",
                   vec |-> IF r.h.status = "ok" THEN TcToVec(r.f, r.h) ELSE <<>>])
    /\ UNCHANGED <<tcHost, tcCounts, tcWritten, tcCr>>
    /\ UNCHANGED <<ptvVars, dnVars, txVars, extVars>>

\* ---- create, step by step, with a reader opening the target path

TcCreateStart ==
    /\ tcHost \in Endians
    /\ tcCounts \in SeqsUpTo(CountValues, MaxCounts)
    /\ tcWritten = "new"
    /\ tcFile = Absent
    /\ tcLog = <<>>
    /\ tcCr = [pc |-> "ensure", i |-> 0, map |-> Absent, attached |-> TRUE]

\* The next step of the running create; its writes reach the file at the
\* path while its mapping is still the file at the path.
TcCreateStep ==
    /\ tcCr.pc # "none"
    /\ ~CreateDone(tcCr)
    /\ LET s == CreateStep(tcCr.map, tcCr, tcCounts)
       IN  /\ tcCr' = [pc |-> s.cr.pc, i |-> s.cr.i, map |-> s.map,
                       attached |-> tcCr.attached]
           /\ tcFile' = IF tcCr.attached THEN s.map ELSE tcFile
    /\ UNCHANGED <<tcHost, tcCounts, tcWritten, tcLog>>
    /\ UNCHANGED <<ptvVars, dnVars, txVars, extVars>>

\* A reader's open(path) while create runs or after it returned.  A legacy
\* migration renames a new file over the path: the creator's mapping then
\* no longer is the file at the path.
TcReaderOpen ==
    /\ tcCr.pc # "none"
    /\ Len(tcLog) < MaxOpens
    /\ LET r == TcOpenCall(tcFile, tcHost)
       IN  /\ tcFile' = r.f
           /\ tcCr' = [tcCr EXCEPT !.attached = tcCr.attached /\ r.f = tcFile]
           /\ tcLog' = Append(tcLog,
                  [h |-> r.h, before |-> tcFile, crpc |-> tcCr.pc,
                   vec |-> IF r.h.status = "ok" THEN TcToVec(r.f, r.h) ELSE <<>>])
    /\ UNCHANGED <<tcHost, tcCounts, tcWritten>>
    /\ UNCHANGED <<ptvVars, dnVars, txVars, extVars>>

\* ---- detect_legacy_counts_endian, called on its own

\* A word over u32::MAX in both byte orders: only the maxima tell them apart
BothOver == <<1, 0, 0, 0, 0, 0, 0, 2>>

\* The inputs of the opens, and counts files holding such words
TcDetectInputs == TcInputs \cup SeqsUpTo(CountValues \cup {BothOver}, MaxCounts)

\* A legacy counts file of either byte order, not opened yet
TcDetectStart ==
    /\ tcHost \in Endians
    /\ tcCounts \in TcDetectInputs
    /\ tcWritten \in Endians
    /\ tcFile = LegacyCountsFile(tcCounts, tcWritten)
    /\ tcLog = <<>>
    /\ tcCr = NoCreate

\* detect_legacy_counts_endian(bytes) over the bytes of the file
TcDetect ==
    /\ tcWritten \in Endians
    /\ tcLog = <<>>
    /\ tcLog' = <<[h |-> [status |-> "detected",
                          path |-> detect_legacy_counts_endian(tcFile, tcHost),
                          len |-> tcFile.len \div WordSize],
                   before |-> tcFile, crpc |-> "none", vec |-> <<>>]>>
    /\ UNCHANGED <<tcHost, tcCounts, tcWritten, tcFile, tcCr>>
    /\ UNCHANGED <<ptvVars, dnVars, txVars, extVars>>

\* ------------------------------------------------ dense vectors: deletion

MaxVectors == 2

MaxCalls == 4

HEADER_SIZE == 4

\* size_of::<u64>()
DELETED_LAYOUT_BLOCK_BYTES == 8

DivCeil(a, b) == (a + b - 1) \div b

deleted_mmap_data_start ==
    DivCeil(HEADER_SIZE, DELETED_LAYOUT_BLOCK_BYTES) * DELETED_LAYOUT_BLOCK_BYTES

deleted_mmap_size(num) ==
    LET num_bytes == DivCeil(num, 8)
        data_size == DivCeil(num_bytes, DELETED_LAYOUT_BLOCK_BYTES)
                         * DELETED_LAYOUT_BLOCK_BYTES
    IN  deleted_mmap_data_start + data_size

\* The length in bits of the bitslice open maps over the deleted file: all
\* of the file after the header block
DeletedBitLen(num) == (deleted_mmap_size(num) - deleted_mmap_data_start) * 8

\* The keys delete is called with: every vector, one past the last vector
\* (a reserved bit of the bitslice) and one past the bitslice
DnKeys == (0..MaxVectors) \cup {DeletedBitLen(MaxVectors)}

\* num_vectors of no store at all
NoStore == 0 - 1

NoDelete == [key |-> 0, ret |-> "none", was |-> FALSE, count0 |-> 0]

DnIdle ==
    /\ dnNum = NoStore
    /\ dnBits = {}
    /\ dnCount = 0
    /\ dnLast = NoDelete
    /\ dnCalls = 0

\* The deleted_count that open computes: count_ones of the whole bitslice
DnOpenCount(bits) == Cardinality(bits)

\* open of a store that was just created: a zero-filled deleted file
DnStart ==
    /\ dnNum \in 0..MaxVectors
    /\ dnBits = {}
    /\ dnCount = DnOpenCount({})
    /\ dnLast = NoDelete
    /\ dnCalls = 0

\* What MmapDenseVectors::delete does to (bits, deleted_count), and returns;
\* BitSlice::replace panics on a key outside the bitslice.
DnDeleteCall(num, bits, count, key) ==
    IF key >= DeletedBitLen(num)
    THEN [bits |-> bits, count |-> count, ret |-> "panic"]
    ELSE LET is_deleted == ~(key \in bits)
         IN  [bits |-> bits \cup {key},
              count |-> IF is_deleted THEN count + 1 ELSE count,
              ret |-> IF is_deleted THEN "true" ELSE "false"]

DnDelete(key) ==
    /\ dnNum # NoStore
    /\ dnCalls < MaxCalls
    /\ LET r == DnDeleteCall(dnNum, dnBits, dnCount, key)
       IN  /\ dnBits' = r.bits
           /\ dnCount' = r.count
           /\ dnLast' = [key |-> key, ret |-> r.ret, was |-> key \in dnBits,
                         count0 |-> dnCount]
    /\ dnCalls' = dnCalls + 1
    /\ UNCHANGED dnNum
    /\ UNCHANGED <<ptvVars, tcVars, txVars, extVars>>

\* The handle is dropped and the store opened again over the same files
DnReopen ==
    /\ dnNum # NoStore
    /\ dnCalls < MaxCalls
    /\ dnCalls > 0
    /\ dnCount' = DnOpenCount(dnBits)
    /\ dnLast' = NoDelete
    /\ dnCalls' = dnCalls + 1
    /\ UNCHANGED <<dnNum, dnBits>>
    /\ UNCHANGED <<ptvVars, tcVars, txVars, extVars>>

\* ---------------------------------------- full-text index: mmap, immutable

MaxDocs == 1

MaxTokens == 2

TokenIds == {0, 1}

Builds == {"debug", "release"}

Documents == SeqsUpTo(TokenIds, MaxTokens)

\* The documents the index is built from: none, one token, two in either order
TxDocuments == {<<>>, <<0>>, <<0, 1>>, <<1, 0>>}

TxInputs == SeqsUpTo(TxDocuments, MaxDocs) \ {<<>>}

\* point_to_tokens_count of the immutable index the mmap index is built from
TokensCount(doc) == Len(doc)

\* MmapBitSlice::create rounds the bitslice up to whole 64-bit words
TxBitLen(n) == ((n + 63) \div 64) * 64

\* The point ids the index is asked about: every point, one past the last
\* point (inside the bitslice, outside the counts) and one past the bitslice
TxKeys == (0..MaxDocs) \cup {TxBitLen(MaxDocs)}

NoRemove == [seq |-> 0, p |-> 0, ret |-> "none"]

TxIdle ==
    /\ txBuild = "release"
    /\ txDocs = <<>>
    /\ txHasPos = FALSE
    /\ txCounts = <<>>
    /\ txBits = {}
    /\ txPending = {}
    /\ txActive = 0
    /\ txAlive = FALSE
    /\ txGen = 0
    /\ txLast = NoRemove

\* MmapInvertedIndex::create: the counts, and the deleted bitslice with the
\* points of count zero set
TxCreateCounts(docs) == [i \in 1..Len(docs) |-> TokensCount(docs[i])]

TxCreateBits(docs) == {p \in 0..(Len(docs) - 1) : TokensCount(docs[p + 1]) = 0}

\* MmapInvertedIndex::open: active_points_count. usize subtraction: a
\* build with overflow checks panics on underflow, the other wraps (the
\* wrapped value is kept as its negative representative modulo 2^64).
TxOpenCall(build, counts, bits) ==
    LET num_deleted_points == Cardinality(bits)
        points_count == Len(counts) - num_deleted_points
    IN  IF points_count < 0 /\ build = "debug"
        THEN [alive |-> FALSE, active |-> 0]
        ELSE [alive |-> TRUE, active |-> points_count]

TxStart ==
    /\ txBuild \in Builds
    /\ txDocs \in TxInputs
    /\ txHasPos \in BOOLEAN
    /\ txCounts = TxCreateCounts(txDocs)
    /\ txBits = TxCreateBits(txDocs)
    /\ txPending = {}
    /\ txActive = TxOpenCall(txBuild, txCounts, txBits).active
    /\ txAlive = TxOpenCall(txBuild, txCounts, txBits).alive
    /\ txGen = 1
    /\ txLast = NoRemove

\* MmapBitSliceBufferedUpdateWrapper::get: the pending update if there is
\* one, else the bit of the bitslice; None outside the bitslice
DeletedGet(bits, pending, n, idx) ==
    IF idx < TxBitLen(n)
    THEN [some |-> TRUE, v |-> idx \in (bits \cup pending)]
    ELSE [some |-> FALSE, v |-> FALSE]

deleted_points_get(idx) == DeletedGet(txBits, txPending, Len(txCounts), idx)

\* PointToTokensCount::get on the open counts
point_to_tokens_count_get(idx) ==
    IF idx < Len(txCounts)
    THEN [some |-> TRUE, v |-> txCounts[idx + 1]]
    ELSE [some |-> FALSE, v |-> 0]

\* The same, reporting a slot zeroed for every index
set_zero_always(counts, idx) ==
    IF idx < Len(counts)
    THEN [ok |-> TRUE, counts |-> [counts EXCEPT ![idx + 1] = 0]]
    ELSE [ok |-> TRUE, counts |-> counts]

\* PointToTokensCount::set_zero
set_zero(counts, idx) ==
    IF idx < Len(counts)
    THEN [ok |-> TRUE, counts |-> [counts EXCEPT ![idx + 1] = 0]]
    ELSE [ok |-> FALSE, counts |-> counts]

\* MmapInvertedIndex::remove
TxRemoveCall(build, counts, bits, pending, active, idx) ==
    LET g == DeletedGet(bits, pending, Len(counts), idx)
        z == set_zero(counts, idx)
        same == [counts |-> counts, pending |-> pending, active |-> active]
    IN  IF ~g.some THEN same @@ [ret |-> "false"]
        ELSE IF g.v THEN same @@ [ret |-> "false"]
        ELSE IF ~z.ok
             THEN [counts |-> counts, pending |-> pending \cup {idx},
                   active |-> active, ret |-> "true"]
        ELSE IF active = 0 /\ build = "debug"
             THEN [counts |-> z.counts, pending |-> pending \cup {idx},
                   active |-> active, ret |-> "panic"]
        ELSE [counts |-> z.counts, pending |-> pending \cup {idx},
              active |-> active - 1, ret |-> "true"]

TxRemove(idx) ==
    /\ txAlive
    /\ txLast.seq < MaxCalls
    /\ LET r == TxRemoveCall(txBuild, txCounts, txBits, txPending,
                             txActive, idx)
       IN  /\ txCounts' = r.counts
           /\ txPending' = r.pending
           /\ txActive' = r.active
           /\ txAlive' = (r.ret # "panic")
           /\ txLast' = [seq |-> txLast.seq + 1, p |-> idx, ret |-> r.ret]
    /\ UNCHANGED <<txBuild, txDocs, txHasPos, txBits, txGen>>
    /\ UNCHANGED <<ptvVars, tcVars, dnVars, extVars>>

\* The flusher: the pending updates are written to the bitslice
TxFlush ==
    /\ txAlive
    /\ txPending # {}
    /\ txBits' = txBits \cup txPending
    /\ txPending' = {}
    /\ UNCHANGED <<txBuild, txDocs, txHasPos, txCounts, txActive, txAlive,
                   txGen, txLast>>
    /\ UNCHANGED <<ptvVars, tcVars, dnVars, extVars>>

\* The handle is dropped, its unflushed updates with it, and the index is
\* opened again over the same files
TxReopen ==
    /\ txGen > 0
    /\ txGen < MaxOpens
    /\ txPending' = {}
    /\ txActive' = TxOpenCall(txBuild, txCounts, txBits).active
    /\ txAlive' = TxOpenCall(txBuild, txCounts, txBits).alive
    /\ txGen' = txGen + 1
    /\ txLast' = [txLast EXCEPT !.ret = "none"]
    /\ UNCHANGED <<txBuild, txDocs, txHasPos, txCounts, txBits>>
    /\ UNCHANGED <<ptvVars, tcVars, dnVars, extVars>>

\* ------------------------------------------------ full-text index: queries

Range(s) == {s[i] : i \in DOMAIN s}

PointIds == 0..(Len(txDocs) - 1)

\* postings.get(token_id): the posting list of a token some document has
postings_get(token_id) ==
    LET ids == {p \in PointIds : token_id \in Range(txDocs[p + 1])}
    IN  [some |-> ids # {}, ids |-> ids]

\* The phrase occurs in the document, at consecutive positions
PhraseIn(phrase, doc) ==
    /\ Len(phrase) > 0
    /\ \E off \in 0..(Len(doc) - Len(phrase)) :
           \A i \in 1..Len(phrase) : doc[off + i] = phrase[i]

ParsedQueries ==
    {[kind |-> "AllTokens", tokens |-> ts, phrase |-> <<>>] :
         ts \in SUBSET TokenIds} \cup
    {[kind |-> "AnyTokens", tokens |-> ts, phrase |-> <<>>] :
         ts \in SUBSET TokenIds} \cup
    {[kind |-> "Phrase", tokens |-> {}, phrase |-> ph] : ph \in Documents}

\* The same, reading the flushed bitslice only
is_active_flushed_only(point_id) ==
    LET is_deleted == IF point_id < TxBitLen(Len(txCounts))
                      THEN point_id \in txBits ELSE TRUE
    IN  ~is_deleted

is_active(point_id) ==
    LET g == deleted_points_get(point_id)
        is_deleted == IF g.some THEN g.v ELSE TRUE
    IN  ~is_deleted

\* intersect_compressed_postings_iterator
intersect_compressed_postings_iterator(readers) ==
    {p \in PointIds : (\A r \in readers : p \in r.ids) /\ is_active(p)}

\* merge_compressed_postings_iterator
merge_compressed_postings_iterator(readers) ==
    {p \in PointIds : (\E r \in readers : p \in r.ids) /\ is_active(p)}

\* intersect_compressed_postings_phrase_iterator
intersect_compressed_postings_phrase_iterator(phrase) ==
    {p \in PointIds : PhraseIn(phrase, txDocs[p + 1]) /\ is_active(p)}

\* check_compressed_postings_phrase
check_compressed_postings_phrase(phrase, point_id) ==
    /\ point_id \in PointIds
    /\ PhraseIn(phrase, txDocs[point_id + 1])

filter_has_all(tokens) ==
    LET readers == {postings_get(t) : t \in tokens}
    IN  IF \E r \in readers : ~r.some THEN {}
        ELSE IF readers = {} THEN {}
        ELSE intersect_compressed_postings_iterator(readers)

filter_has_any(tokens) ==
    LET readers == {r \in {postings_get(t) : t \in tokens} : r.some}
    IN  IF readers = {} THEN {}
        ELSE merge_compressed_postings_iterator(readers)

filter_has_phrase(phrase) ==
    IF txHasPos
    THEN intersect_compressed_postings_phrase_iterator(phrase)
    ELSE {}

values_is_empty(point_id) ==
    LET g == deleted_points_get(point_id)
        c == point_to_tokens_count_get(point_id)
    IN  IF (IF g.some THEN g.v ELSE TRUE) THEN TRUE
        ELSE IF c.some THEN c.v = 0 ELSE TRUE

values_count(point_id) ==
    LET g == deleted_points_get(point_id)
        c == point_to_tokens_count_get(point_id)
    IN  IF (IF g.some THEN g.v ELSE TRUE) THEN 0
        ELSE IF c.some THEN c.v ELSE 0

\* The unwrap of the posting list of a token no document has panics: the
\* call yields no result, which is not a match
check_has_subset(tokens, point_id) ==
    IF tokens = {} THEN FALSE
    ELSE IF values_is_empty(point_id) THEN FALSE
    ELSE \A t \in tokens :
             postings_get(t).some /\ point_id \in postings_get(t).ids

check_has_any(tokens, point_id) ==
    IF tokens = {} THEN FALSE
    ELSE IF values_is_empty(point_id) THEN FALSE
    ELSE \E t \in tokens :
             postings_get(t).some /\ point_id \in postings_get(t).ids

check_has_phrase(phrase, point_id) ==
    IF ~is_active(point_id) THEN FALSE
    ELSE IF txHasPos THEN check_compressed_postings_phrase(phrase, point_id)
    ELSE FALSE

filter(query) ==
    CASE query.kind = "AllTokens" -> filter_has_all(query.tokens)
      [] query.kind = "Phrase" -> filter_has_phrase(query.phrase)
      [] query.kind = "AnyTokens" -> filter_has_any(query.tokens)

check_match(parsed_query, point_id) ==
    CASE parsed_query.kind = "AllTokens" ->
             check_has_subset(parsed_query.tokens, point_id)
      [] parsed_query.kind = "Phrase" ->
             check_has_phrase(parsed_query.phrase, point_id)
      [] parsed_query.kind = "AnyTokens" ->
             check_has_any(parsed_query.tokens, point_id)

\* ------------------- point-to-values: open step by step, on its own thread

\* The values the file was written from, as a handle should serve them
Original(iter) ==
    [p \in 0..MaxPoints |->
        IF p < Len(iter) THEN [some |-> TRUE, vals |-> iter[p + 1].vals]
        ELSE [some |-> FALSE, vals |-> <<>>]]

\* open maps the file and reads the header; nothing serializes the callers
ThrStart(t, limit) ==
    /\ ptvThr[t].pc = "idle"
    /\ ptvThr[t].opens < limit
    /\ LET class == OpenClassify(ptvFile)
           th == [ptvThr[t] EXCEPT !.opens = ptvThr[t].opens + 1]
       IN  ptvThr' = [ptvThr EXCEPT ![t] =
               IF class = "reject"
               THEN [th EXCEPT !.pc = "done",
                        !.h = [status |-> "err", path |-> "reject",
                               header |-> NoHeader]]
               ELSE IF class = "fast"
               THEN [th EXCEPT !.pc = "done",
                        !.h = [status |-> "ok", path |-> "fast",
                               header |-> HeaderDecodeLe(ptvFile)]]
               ELSE [th EXCEPT !.pc = "mig",
                        !.m = MigInit(HeaderDecodeBe(ptvFile))]]
    /\ UNCHANGED <<ptvT, ptvHost, ptvIter, ptvWritten, ptvFile, ptvLog>>
    /\ UNCHANGED <<tcVars, dnVars, txVars, extVars>>

\* The next byte swap of the thread's migrate_legacy_be_in_place, through
\* its shared writable mapping
ThrStep(t) ==
    /\ ptvThr[t].pc = "mig"
    /\ ~MigDone(ptvThr[t].m)
    /\ LET s == MigStep(ptvT, ptvFile, ptvThr[t].m)
       IN  /\ ptvFile' = s.f
           /\ ptvThr' = [ptvThr EXCEPT ![t].m = s.m]
    /\ UNCHANGED <<ptvT, ptvHost, ptvIter, ptvWritten, ptvLog>>
    /\ UNCHANGED <<tcVars, dnVars, txVars, extVars>>

\* The migration returned: its error, or the flush and the header re-read
ThrFinish(t) ==
    /\ ptvThr[t].pc = "mig"
    /\ MigDone(ptvThr[t].m)
    /\ ptvThr' = [ptvThr EXCEPT ![t].pc = "done",
                     ![t].h = IF ptvThr[t].m.pc = "err"
                              THEN [status |-> "err", path |-> "migrated",
                                    header |-> NoHeader]
                              ELSE OpenReread(ptvFile)]
    /\ UNCHANGED <<ptvT, ptvHost, ptvIter, ptvWritten, ptvFile, ptvLog>>
    /\ UNCHANGED <<tcVars, dnVars, txVars, extVars>>

\* The process is killed inside the migration: the swaps made so far stay
\* in the file, and the log remembers that this happened
ThrInterrupt(t) ==
    /\ ptvThr[t].pc = "mig"
    /\ ptvThr' = [ptvThr EXCEPT ![t].pc = "idle"]
    /\ ptvLog' = Append(ptvLog, [h |-> [status |-> "killed", path |-> "migrated",
                                        header |-> NoHeader],
                                 before |-> ptvFile, served |-> <<>>])
    /\ UNCHANGED <<ptvT, ptvHost, ptvIter, ptvWritten, ptvFile>>
    /\ UNCHANGED <<tcVars, dnVars, txVars, extVars>>

\* The handle is dropped
ThrClose(t) ==
    /\ ptvThr[t].pc = "done"
    /\ ptvThr' = [ptvThr EXCEPT ![t].pc = "idle"]
    /\ UNCHANGED <<ptvT, ptvHost, ptvIter, ptvWritten, ptvFile, ptvLog>>
    /\ UNCHANGED <<tcVars, dnVars, txVars, extVars>>

\* --------------------------------------------------------- specifications

\* ------------------------------------------------------------ graph links

GlMaxLinks == 2
GlMaxLoads == 2

GlFormats == {"Plain", "Compressed", "CompressedWithVectors"}

\* fs_err::write(path, bytes): the file that holds a byte sequence
FileOf(bs) ==
    [len |-> Len(bs),
     nz |-> [i \in {k - 1 : k \in {j \in 1..Len(bs) : bs[j] # 0}} |-> bs[i + 1]]]

RECURSIVE Flatten(_)
Flatten(ss) == IF ss = <<>> THEN <<>> ELSE Head(ss) \o Flatten(Tail(ss))

\* <[PointOffsetType]>::sort_unstable
RECURSIVE Sorted(_)
Sorted(s) ==
    IF s = <<>> THEN <<>>
    ELSE LET lo == CHOOSE k \in 1..Len(s) : \A j \in 1..Len(s) : s[k] <= s[j]
         IN  <<s[lo]>> \o Sorted(SubSeq(s, 1, lo - 1) \o SubSeq(s, lo + 1, Len(s)))

\* The whole list sorted, not only its first m entries
normalize_links_whole(m, links) == Sorted(links)

\* normalize_links: the first min(len, m) entries sorted, the rest as they are
normalize_links(m, links) ==
    LET first == IF Len(links) < m THEN Len(links) ELSE m
    IN  Sorted(SubSeq(links, 1, first)) \o SubSeq(links, first + 1, Len(links))

\* HnswM::new2(m) of the model: m0 = 2 * m, so that a list of GlMaxLinks
\* entries has an unsorted tail on the upper levels
HnswM == [m |-> 1, m0 |-> 2]

level_m(hnsw_m, level) == IF level = 0 THEN hnsw_m.m0 ELSE hnsw_m.m

\* The version markers, as the 8 little-endian bytes of the header field
HEADER_VERSION(name) ==
    LET tag == CASE name = "PLAIN" -> 16
                 [] name = "COMPRESSED" -> 17
                 [] name = "COMPRESSED_LEGACY" -> 1
                 [] name = "COMPRESSED_WITH_VECTORS" -> 18
                 [] name = "COMPRESSED_WITH_VECTORS_LEGACY" -> 2
    IN  <<tag, 255, 255, 255, 255, 255, 255, 255>>

GlVersionName(format, legacy) ==
    CASE format = "Plain" -> "PLAIN"
      [] format = "Compressed" ->
            IF legacy THEN "COMPRESSED_LEGACY" ELSE "COMPRESSED"
      [] format = "CompressedWithVectors" ->
            IF legacy THEN "COMPRESSED_WITH_VECTORS_LEGACY"
            ELSE "COMPRESSED_WITH_VECTORS"

\* size_of the header: 5 u64 fields and 24 bytes of padding in the legacy
\* plain header, the version marker in the first 8 of them since
GlHeaderSize == 64

\* The index of a u64 field in the header of a format
GlField(format, name) ==
    IF format = "Plain"
    THEN CASE name = "point_count" -> 0
           [] name = "levels_count" -> 1
           [] name = "total_neighbors_count" -> 2
           [] name = "total_offset_count" -> 3
           [] name = "offsets_padding_bytes" -> 4
           [] name = "version" -> 5
    ELSE CASE name = "point_count" -> 0
           [] name = "version" -> 1
           [] name = "levels_count" -> 2
           [] name = "total_neighbors_count" -> 3
           [] name = "total_offset_count" -> 4
           [] name = "offsets_padding_bytes" -> 5

\* GraphLinksVectors of the model: one byte per base and per link vector
get_base_vector(point_id) == <<100 + point_id>>

get_link_vector(point_id) == <<200 + point_id>>

\* Widths of a neighbour id and of a per-list offset in the payload: u32 and
\* u64 in the plain format, one packed byte each in the compressed formats
GlIdWidth(format) == IF format = "Plain" THEN 4 ELSE 1

GlOffsetWidth(format) == IF format = "Plain" THEN 8 ELSE 1

\* The bytes of a file: header, level offsets, reindex, neighbours, padding,
\* offsets.  e is the byte order of every multi-byte field, version the 8
\* bytes of the version field.
GlImage(edges, format, hnsw_m, e, version) ==
    LET n == Len(edges)
        lv(p) == Len(edges[p + 1])
        levels == IF n = 0 THEN 0
                  ELSE CHOOSE x \in {lv(p) : p \in 0..(n - 1)} :
                           \A p \in 0..(n - 1) : lv(p) <= x
        \* points by decreasing number of levels
        before(p, q) == lv(p) > lv(q) \/ (lv(p) = lv(q) /\ p < q)
        rank(p) == Cardinality({q \in 0..(n - 1) : before(q, p)})
        order == [i \in 1..n |-> CHOOSE p \in 0..(n - 1) : rank(p) = i - 1]
        keysAt(l) == IF l = 0 THEN [i \in 1..n |-> i - 1]
                     ELSE SelectSeq(order, LAMBDA p : lv(p) > l)
        keys == Flatten([l \in 1..levels |->
                    [i \in 1..Len(keysAt(l - 1)) |-> <<keysAt(l - 1)[i], l - 1>>]])
        K == Len(keys)
        raw(k) == edges[k[1] + 1][k[2] + 1]
        m(k) == IF Len(raw(k)) < level_m(hnsw_m, k[2]) THEN Len(raw(k))
                ELSE level_m(hnsw_m, k[2])
        list(k) == Sorted(SubSeq(raw(k), 1, m(k)))
                       \o SubSeq(raw(k), m(k) + 1, Len(raw(k)))
        ids(k) == Flatten([i \in 1..Len(list(k)) |->
                      IF format = "Plain"
                      THEN (IF e = "little" THEN ToLE(list(k)[i], 4)
                            ELSE ToBE(list(k)[i], 4))
                      ELSE <<list(k)[i]>>])
        block(k) ==
            IF format = "CompressedWithVectors"
            THEN (IF k[2] = 0 THEN get_base_vector(k[1]) ELSE <<>>)
                     \o ids(k)
                     \o Flatten([i \in 1..Len(list(k)) |-> get_link_vector(list(k)[i])])
            ELSE ids(k)
        size(k) == Len(block(k)) \div GlIdWidth(format)
        pre[i \in 0..K] == IF i = 0 THEN 0 ELSE pre[i - 1] + size(keys[i])
        lo[l \in 0..levels] == IF l = 0 THEN 0 ELSE lo[l - 1] + Len(keysAt(l - 1))
        u64(v) == EncodeU64(v, e)
        u32(v) == IF e = "little" THEN ToLE(v, 4) ELSE ToBE(v, 4)
        tables == Flatten([l \in 1..levels |-> u64(lo[l - 1])])
                      \o Flatten([p \in 1..n |-> u32(rank(p - 1))])
        neighbors == Flatten([i \in 1..K |-> block(keys[i])])
        used == GlHeaderSize + Len(tables) + Len(neighbors)
        pad == (8 - (used % 8)) % 8
        offsets == Flatten([i \in 1..(K + 1) |->
                       IF format = "Plain" THEN u64(pre[i - 1]) ELSE <<pre[i - 1]>>])
        field(name) == CASE name = "point_count" -> u64(n)
                         [] name = "levels_count" -> u64(levels)
                         [] name = "total_neighbors_count" -> u64(pre[K])
                         [] name = "total_offset_count" -> u64(K + 1)
                         [] name = "offsets_padding_bytes" -> u64(pad)
                         [] name = "version" -> version
        names == {"point_count", "levels_count", "total_neighbors_count",
                  "total_offset_count", "offsets_padding_bytes", "version"}
        header == Flatten([i \in 1..(GlHeaderSize \div 8) |->
                      IF \E nm \in names : GlField(format, nm) = i - 1
                      THEN field(CHOOSE nm \in names : GlField(format, nm) = i - 1)
                      ELSE Zeros(8)])
    IN  header \o tables \o neighbors \o Zeros(pad) \o offsets

\* serialize_graph_links: every multi-byte value through to_le_bytes
serialize_graph_links(edges, format, hnsw_m) ==
    GlImage(edges, format, hnsw_m, "little",
            HEADER_VERSION(GlVersionName(format, FALSE)))

\* The same bytes with the neighbour ids left little-endian
legacy_plain_fixture_le_neighbors(edges, hnsw_m) ==
    LET be == FileOf(GlImage(edges, "Plain", hnsw_m, "big", Zeros(8)))
        le == GlImage(edges, "Plain", hnsw_m, "little", Zeros(8))
        n == Len(edges)
        levels == FromBE(Bytes(be, 8, 8))
        total == FromBE(Bytes(be, 16, 8))
        pos == GlHeaderSize + 8 * levels + 4 * n
    IN  Wr(be, pos, SubSeq(le, pos + 1, pos + 4 * total))

\* legacy_plain_big_endian_fixture: the legacy plain file of a big-endian
\* host, native-endian fields and no version marker
legacy_plain_big_endian_fixture(edges, hnsw_m) ==
    FileOf(GlImage(edges, "Plain", hnsw_m, "big", Zeros(8)))

\* legacy_compressed_big_endian_fixture and
\* legacy_compressed_with_vectors_big_endian_fixture: the serialized file,
\* marked legacy, with its level offsets and reindex rewritten big-endian
legacy_compressed_big_endian_fixture(edges, format, hnsw_m) ==
    LET bytes == FileOf(serialize_graph_links(edges, format, hnsw_m))
        marked == Wr(bytes, 8, HEADER_VERSION(GlVersionName(format, TRUE)))
        point_count == FromLE(Bytes(marked, 0, 8))
        levels_count == FromLE(Bytes(marked, 16, 8))
        lvl[i \in 0..levels_count] ==
            IF i = 0 THEN marked
            ELSE ReverseInPlace(lvl[i - 1], GlHeaderSize + 8 * (i - 1), 8)
        pos == GlHeaderSize + 8 * levels_count
        pts[i \in 0..point_count] ==
            IF i = 0 THEN lvl[levels_count]
            ELSE ReverseInPlace(pts[i - 1], pos + 4 * (i - 1), 4)
    IN  pts[point_count]

\* The header of a graph-links file read in byte order he, with the
\* structural checks of the load: err is "none" or the failed check
GlHeader(f, format, he) ==
    LET dec(bs) == IF he = "little" THEN FromLE(bs) ELSE FromBE(bs)
        fld(name) == dec(Bytes(f, 8 * GlField(format, name), 8))
        n == fld("point_count")
        levels == fld("levels_count")
        tn == fld("total_neighbors_count")
        toc == fld("total_offset_count")
        pad == fld("offsets_padding_bytes")
        used == GlHeaderSize + 8 * levels + 4 * n + GlIdWidth(format) * tn
        err == IF f.len < GlHeaderSize THEN "header"
               ELSE IF n > 0 /\ levels = 0 THEN "level/point counts"
               ELSE IF n >= Huge \/ levels >= Huge \/ tn >= Huge \/ toc >= Huge
                        \/ pad # (8 - (used % 8)) % 8
                        \/ used + pad + GlOffsetWidth(format) * toc # f.len
                    THEN "layout"
               ELSE "none"
    IN  [err |-> err, n |-> n, levels |-> levels, tn |-> tn, toc |-> toc,
         pad |-> pad, version |-> Bytes(f, 8 * GlField(format, "version"), 8)]

\* GraphLinksView over the bytes: the header h and the byte order te of the
\* level offsets, the reindex and (plain) the neighbours and offsets
GlView(f, format, h, te) ==
    LET dec(bs) == IF te = "little" THEN FromLE(bs) ELSE FromBE(bs)
        nb == GlHeaderSize + 8 * h.levels + 4 * h.n
        ob == nb + GlIdWidth(format) * h.tn + h.pad
    IN  [format |-> format, n |-> h.n, levels |-> h.levels,
         level_offsets |-> [l \in 1..h.levels |->
                               dec(Bytes(f, GlHeaderSize + 8 * (l - 1), 8))],
         reindex |-> [p \in 1..h.n |->
                         dec(Bytes(f, GlHeaderSize + 8 * h.levels + 4 * (p - 1), 4))],
         offsets |-> [i \in 1..h.toc |->
                         IF format = "Plain" THEN dec(Bytes(f, ob + 8 * (i - 1), 8))
                         ELSE Rd(f, ob + i - 1)],
         neighbors |-> [i \in 1..h.tn |->
                           IF format = "Plain" THEN dec(Bytes(f, nb + 4 * (i - 1), 4))
                           ELSE Rd(f, nb + i - 1)]]

\* The checks of the tables of a view
GlTablesOk(v) ==
    /\ \A l \in 1..v.levels : v.level_offsets[l] < Len(v.offsets)
    /\ \A l \in 1..(v.levels - 1) : v.level_offsets[l] <= v.level_offsets[l + 1]
    /\ \A p \in 1..v.n : v.reindex[p] < v.n
    /\ \A i \in 1..Len(v.offsets) : v.offsets[i] <= Len(v.neighbors)
    /\ \A i \in 1..(Len(v.offsets) - 1) : v.offsets[i] <= v.offsets[i + 1]
    /\ v.n < Len(v.offsets) \/ v.n = 0

NoView == [format |-> "none", n |-> 0, levels |-> 0, level_offsets |-> <<>>,
           reindex |-> <<>>, offsets |-> <<>>, neighbors |-> <<>>]

\* GraphLinksView::load: little-endian first; the plain format falls back to
\* a big-endian decode when the little-endian header fails its checks, the
\* compressed formats when the version marker is the legacy one.
\* path is "le" or "be"; a load through "be" counts as a fallback load.
GlLoadCall(f, format) ==
    LET le == GlHeader(f, format, "little")
        be == GlHeader(f, format, "big")
        done(h, te, path) ==
            LET v == GlView(f, format, h, te)
            IN  IF GlTablesOk(v)
                THEN [err |-> "none", path |-> path, view |-> v]
                ELSE [err |-> "tables", path |-> path, view |-> NoView]
        fail(e) == [err |-> e, path |-> "le", view |-> NoView]
    IN  IF format = "Plain"
        THEN IF le.err = "none"
             THEN IF le.version \in {HEADER_VERSION("PLAIN"), Zeros(8)}
                  THEN done(le, "little", "le")
                  ELSE fail("version")
             ELSE IF be.err = "none" /\ be.version = Zeros(8)
                  THEN done(be, "big", "be")
                  ELSE fail(le.err)
        ELSE IF le.err # "none" THEN fail(le.err)
             ELSE IF le.version = HEADER_VERSION(GlVersionName(format, FALSE))
                  THEN done(le, "little", "le")
             ELSE IF le.version = HEADER_VERSION(GlVersionName(format, TRUE))
                  THEN done(le, "big", "be")
             ELSE fail("version")

\* GraphLinksView::point_level: the highest level the point has links on
point_level(v, point_id) ==
    LET count(l) == (IF l + 1 < v.levels THEN v.level_offsets[l + 2]
                     ELSE Len(v.offsets) - 1) - v.level_offsets[l + 1]
        has == {l \in 0..(v.levels - 1) : l = 0 \/ v.reindex[point_id + 1] < count(l)}
    IN  CHOOSE l \in has : \A x \in has : x <= l

\* GraphLinks::links(point_id, level), collected
links(v, point_id, level) ==
    LET idx == IF level = 0 THEN point_id
               ELSE v.level_offsets[level + 1] + v.reindex[point_id + 1]
        a == v.offsets[idx + 1]
        b == v.offsets[idx + 2]
        base == IF v.format = "CompressedWithVectors" /\ level = 0
                THEN Len(get_base_vector(point_id)) ELSE 0
        per == IF v.format = "CompressedWithVectors"
               THEN 1 + Len(get_link_vector(0)) ELSE 1
        k == (b - a - base) \div per
    IN  [i \in 1..k |-> v.neighbors[a + base + i]]

\* GraphLinks::to_edges
to_edges(v) ==
    [p \in 1..v.n |-> [l \in 1..(point_level(v, p - 1) + 1) |-> links(v, p - 1, l - 1)]]

\* The same, the counters read through a one-bit register
graph_links_telemetry_one_bit(tel) ==
    [plain_version |-> HEADER_VERSION("PLAIN"),
     compressed_version |-> HEADER_VERSION("COMPRESSED"),
     compressed_legacy_version |-> HEADER_VERSION("COMPRESSED_LEGACY"),
     compressed_with_vectors_version |-> HEADER_VERSION("COMPRESSED_WITH_VECTORS"),
     compressed_with_vectors_legacy_version |->
         HEADER_VERSION("COMPRESSED_WITH_VECTORS_LEGACY"),
     fallback_decode |->
         [legacy_plain_big_endian_fallback_loads |-> tel["Plain"] % 2,
          legacy_compressed_big_endian_fallback_loads |-> tel["Compressed"] % 2,
          legacy_compressed_with_vectors_big_endian_fallback_loads |->
              tel["CompressedWithVectors"] % 2]]

\* graph_links_compatibility_telemetry: the version constants and the
\* process-wide fallback counters
graph_links_compatibility_telemetry(tel) ==
    [plain_version |-> HEADER_VERSION("PLAIN"),
     compressed_version |-> HEADER_VERSION("COMPRESSED"),
     compressed_legacy_version |-> HEADER_VERSION("COMPRESSED_LEGACY"),
     compressed_with_vectors_version |-> HEADER_VERSION("COMPRESSED_WITH_VECTORS"),
     compressed_with_vectors_legacy_version |->
         HEADER_VERSION("COMPRESSED_WITH_VECTORS_LEGACY"),
     fallback_decode |->
         [legacy_plain_big_endian_fallback_loads |-> tel["Plain"],
          legacy_compressed_big_endian_fallback_loads |-> tel["Compressed"],
          legacy_compressed_with_vectors_big_endian_fallback_loads |->
              tel["CompressedWithVectors"]]]

\* collect_persistence_compatibility_telemetry
collect_persistence_compatibility_telemetry(tel) ==
    LET graph == graph_links_compatibility_telemetry(tel)
    IN  [format_versions |->
             [hnsw_graph_links_plain |-> graph.plain_version,
              hnsw_graph_links_compressed |-> graph.compressed_version,
              hnsw_graph_links_compressed_legacy |-> graph.compressed_legacy_version,
              hnsw_graph_links_compressed_with_vectors |->
                  graph.compressed_with_vectors_version,
              hnsw_graph_links_compressed_with_vectors_legacy |->
                  graph.compressed_with_vectors_legacy_version],
         migration_counters |->
             [hnsw_legacy_plain_big_endian_fallback_loads |->
                  graph.fallback_decode.legacy_plain_big_endian_fallback_loads,
              hnsw_legacy_compressed_big_endian_fallback_loads |->
                  graph.fallback_decode.legacy_compressed_big_endian_fallback_loads,
              hnsw_legacy_compressed_with_vectors_big_endian_fallback_loads |->
                  graph.fallback_decode
                      .legacy_compressed_with_vectors_big_endian_fallback_loads,
              sparse_legacy_index_filename_migrations |-> tel["SparseFilename"]]]

GlCounters == GlFormats \cup {"SparseFilename"}

\* The point ids of the inputs and their link lists
GlPointIds == {0, 1}

GlLists == SeqsUpTo(GlPointIds, GlMaxLinks)

\* edges: no point, one point, two points of one level, and two points the
\* second of which has a second level (so that reindex is not the identity)
GlInputs ==
    {<<>>}
        \cup {<<<<a>>>> : a \in GlLists}
        \cup {<<<<a>>, <<<<0>>>>>> : a \in GlLists}
        \cup {<<<<<<1>>>>, <<<<0>>, c>>>> : c \in GlLists}

\* How a file is produced: by the serializer or as a legacy big-endian
\* fixture, and with its levels_count field overwritten by 0 or not
GlKinds == [legacy : BOOLEAN, zero_levels : BOOLEAN]

\* The same write on the point_count field
GlZeroPoints(f, format) == Wr(f, 8 * GlField(format, "point_count"), Zeros(8))

\* write_u64_le_at(bytes, field_idx, 0) on the levels_count field
GlZeroLevels(f, format) == Wr(f, 8 * GlField(format, "levels_count"), Zeros(8))

GlFileOf(edges, format, kind) ==
    LET f == IF ~kind.legacy
             THEN FileOf(serialize_graph_links(edges, format, HnswM))
             ELSE IF format = "Plain"
                  THEN legacy_plain_big_endian_fixture(edges, HnswM)
                  ELSE legacy_compressed_big_endian_fixture(edges, format, HnswM)
    IN  IF kind.zero_levels THEN GlZeroLevels(f, format) ELSE f

NoLoad == [format |-> "none", kind |-> [legacy |-> FALSE, zero_levels |-> FALSE],
           err |-> "no call", path |-> "le", edges |-> <<>>,
           before |-> [c \in GlCounters |-> 0]]

GlIdle ==
    /\ glFormat = "none"
    /\ glEdges = <<>>
    /\ glKind = NoLoad.kind
    /\ glFile = Absent
    /\ glTel = [c \in GlCounters |-> 0]
    /\ glLoads = 0
    /\ glLast = NoLoad

\* A process starts with every counter at 0 and a file on disk
GlStart ==
    /\ glFormat \in GlFormats
    /\ glEdges \in GlInputs
    /\ glKind \in GlKinds
    /\ glFile = GlFileOf(glEdges, glFormat, glKind)
    /\ glTel = [c \in GlCounters |-> 0]
    /\ glLoads = 0
    /\ glLast = NoLoad

\* GraphLinks::load_from_file(path, on_disk, format)
GlLoad ==
    /\ glFile # Absent
    /\ glLoads < GlMaxLoads
    /\ LET r == GlLoadCall(glFile, glFormat)
           counted == r.err = "none" /\ r.path = "be"
       IN  /\ glTel' = IF counted
                       THEN [glTel EXCEPT ![glFormat] = @ + 1]
                       ELSE glTel
           /\ glLast' = [format |-> glFormat, kind |-> glKind, err |-> r.err,
                         path |-> r.path,
                         edges |-> IF r.err = "none" THEN to_edges(r.view) ELSE <<>>,
                         before |-> glTel]
    /\ glLoads' = glLoads + 1
    /\ UNCHANGED <<glFormat, glEdges, glKind, glFile>>
    /\ UNCHANGED <<ptvVars, tcVars, dnVars, txVars, dvVars, spVars, restVars>>

\* The rename of a legacy sparse index file, counted once per migration
GlSparseFilenameMigration ==
    /\ glFile # Absent
    /\ glLoads < GlMaxLoads
    /\ glTel' = [glTel EXCEPT !["SparseFilename"] = @ + 1]
    /\ glLoads' = glLoads + 1
    /\ UNCHANGED <<glFormat, glEdges, glKind, glFile, glLast>>
    /\ UNCHANGED <<ptvVars, tcVars, dnVars, txVars, dvVars, spVars, restVars>>

\* The links the test oracle expects: the input with the first m_level
\* entries of every list sorted
GlExpected(edges) ==
    [p \in 1..Len(edges) |->
        [l \in 1..Len(edges[p]) |->
            normalize_links(level_m(HnswM, l - 1), edges[p][l])]]

\* ------------------------------- point-to-values: files of any content

MmapValueKinds == {"int", "str", "geo"}

\* Inputs of at most two items with distinct point ids below MaxPoints, in
\* any order and with gaps
PtvSparseInputs(T) ==
    LET ids == 0..(MaxPoints - 1)
    IN  {<<>>}
            \cup {<<[id |-> a, vals |-> v]>> : a \in ids, v \in PointValues(T)}
            \cup {<<[id |-> x[1], vals |-> x[3]], [id |-> x[2], vals |-> x[4]]>> :
                     x \in {y \in ids \X ids \X PointValues(T) \X PointValues(T) :
                               y[1] # y[2]}}

\* What get_values is expected to return for the points 0..MaxPoints: the
\* values of the item with that id, nothing for an id without item, None
\* from points_count on
PtvExpected(iter) ==
    [p \in 0..MaxPoints |->
        IF p >= MaxPointsCount(iter) THEN [some |-> FALSE, vals |-> <<>>]
        ELSE IF \E i \in 1..Len(iter) : iter[i].id = p
        THEN [some |-> TRUE,
              vals |-> iter[CHOOSE i \in 1..Len(iter) : iter[i].id = p].vals]
        ELSE [some |-> TRUE, vals |-> <<>>]]

\* File::set_len(n) on a longer file
Truncate(f, n) ==
    [len |-> n, nz |-> [i \in {j \in DOMAIN f.nz : j < n} |-> f.nz[i]]]

\* Files found at the path of a store written from iter: the canonical and
\* the legacy body, the first 8 bytes overwritten with 4096 little-endian,
\* 4096 big-endian, zeros or 4097, whole or cut short of the header
PtvCraftedFiles(T, iter) ==
    LET bodies == {WriteFile(T, iter, e).f : e \in Endians}
        firsts == {ToLE(PADDING_SIZE, 8), ToBE(PADDING_SIZE, 8), Zeros(8),
                   ToLE(PADDING_SIZE + 1, 8)}
        whole == {Wr(b, 0, h) : b \in bodies, h \in firsts}
    IN  whole \cup {Truncate(w, c) : w \in whole, c \in {0, 8, HeaderDiskSize - 1}}

PtvFilesStart ==
    /\ ptvT \in MmapValueKinds
    /\ ptvLog = <<>>
    /\ ptvThr = [t \in Threads |-> IdleThread]
    /\ \/ /\ ptvHost \in Endians
          /\ ptvIter \in PtvSparseInputs(ptvT)
          /\ ptvWritten = "little"
          /\ from_iter(ptvT, ptvIter).ok
          /\ ptvFile = from_iter(ptvT, ptvIter).f
       \/ /\ ptvHost = "little"
          /\ ptvIter \in {i \in PtvInputs(ptvT) : Len(i) = 1}
          /\ ptvWritten = "crafted"
          /\ ptvFile \in PtvCraftedFiles(ptvT, ptvIter)

\* ------------------------------------------------ dense vectors: open

DvMaxDim == 2

\* b"data"
VECTORS_HEADER == <<100, 97, 116, 97>>

\* b"drop"
DELETED_HEADER == <<100, 114, 111, 112>>

\* ensure_mmap_file_size(path, header, size): the file at the path
\* afterwards; size is -1 for None.  An existing file only has its length
\* set, a missing one is created with the header.
ensure_mmap_file_size(f, header, size) ==
    IF f # Absent
    THEN IF size >= 0 THEN Truncate(f, size) ELSE f
    ELSE IF size > Len(header) THEN Truncate(FileOf(header), size)
         ELSE FileOf(header)

\* The checks of open on the vectors file, payload remainder left out
DvVectorsLayoutNoRemainder(f, dim, size_of_T) ==
    IF f.len < HEADER_SIZE THEN [err |-> "vectors size", num_vectors |-> 0]
    ELSE IF Bytes(f, 0, HEADER_SIZE) # VECTORS_HEADER
    THEN [err |-> "vectors header", num_vectors |-> 0]
    ELSE IF dim * size_of_T = 0 THEN [err |-> "vector byte size", num_vectors |-> 0]
    ELSE [err |-> "none", num_vectors |-> (f.len - HEADER_SIZE) \div (dim * size_of_T)]

\* The checks of open on the vectors file: its size, its magic, the bytes
\* of one vector and the payload being whole vectors.  The products stay far
\* below usize::MAX here, so checked_mul never overflows.
DvVectorsLayout(f, dim, size_of_T) ==
    LET vector_bytes == dim * size_of_T
        payload_len == f.len - HEADER_SIZE
    IN  IF f.len < HEADER_SIZE THEN [err |-> "vectors size", num_vectors |-> 0]
        ELSE IF Bytes(f, 0, HEADER_SIZE) # VECTORS_HEADER
        THEN [err |-> "vectors header", num_vectors |-> 0]
        ELSE IF vector_bytes = 0 THEN [err |-> "vector byte size", num_vectors |-> 0]
        ELSE IF payload_len % vector_bytes # 0
        THEN [err |-> "vectors payload", num_vectors |-> 0]
        ELSE [err |-> "none", num_vectors |-> payload_len \div vector_bytes]

\* MmapDenseVectors::open(vectors_path, deleted_path, dim, ..) as one call:
\* the two files it leaves and its outcome
DvOpenCall(vf, df, dim, size_of_T) ==
    LET vectors == ensure_mmap_file_size(vf, VECTORS_HEADER, -1)
        lay == DvVectorsLayout(vectors, dim, size_of_T)
        deleted == ensure_mmap_file_size(df, DELETED_HEADER,
                                         deleted_mmap_size(lay.num_vectors))
    IN  IF lay.err # "none"
        THEN [vectors |-> vectors, deleted |-> df, err |-> lay.err, num_vectors |-> 0]
        ELSE IF deleted.len < deleted_mmap_data_start
        THEN [vectors |-> vectors, deleted |-> deleted, err |-> "deleted size",
              num_vectors |-> 0]
        ELSE IF Bytes(deleted, 0, HEADER_SIZE) # DELETED_HEADER
        THEN [vectors |-> vectors, deleted |-> deleted, err |-> "deleted header",
              num_vectors |-> 0]
        ELSE [vectors |-> vectors, deleted |-> deleted, err |-> "none",
              num_vectors |-> lay.num_vectors]

\* size_of::<T>() of the element types: u8 and f32
DvElems == {1, 4}

\* A file of n bytes that begins with as much of the header as fits
DvHeaded(header, n) == FileOf(SubSeq(header \o Zeros(n), 1, n))

\* b"nope"
DvWrongHeader == <<110, 111, 112, 101>>

\* The vectors files found at the path: none, and files of every length up
\* to MaxVectors f32 values under the right and under a wrong magic
DvVectorFiles ==
    {Absent} \cup {DvHeaded(h, n) : h \in {VECTORS_HEADER, DvWrongHeader},
                                    n \in 0..(HEADER_SIZE + 4 * MaxVectors)}

\* The deleted files found at the path: none, and empty, cut, header-only
\* and whole files under the right and under a wrong magic
DvDeletedFiles ==
    {Absent} \cup {DvHeaded(h, n) : h \in {DELETED_HEADER, DvWrongHeader},
                                    n \in {0, 2, HEADER_SIZE, deleted_mmap_size(MaxVectors)}}

DvIdle ==
    /\ dvVectors = Absent
    /\ dvDeleted = Absent
    /\ dvDim = 0
    /\ dvElem = 0
    /\ dvLog = <<>>

DvStart ==
    /\ dvVectors \in DvVectorFiles
    /\ dvDeleted \in DvDeletedFiles
    /\ dvDim \in 0..DvMaxDim
    /\ dvElem \in DvElems
    /\ dvLog = <<>>

\* MmapDenseVectors::open: the whole call
DvOpen ==
    /\ dvElem # 0
    /\ Len(dvLog) < MaxOpens
    /\ LET r == DvOpenCall(dvVectors, dvDeleted, dvDim, dvElem)
       IN  /\ dvVectors' = r.vectors
           /\ dvDeleted' = r.deleted
           /\ dvLog' = Append(dvLog,
                  [err |-> r.err, num_vectors |-> r.num_vectors,
                   vectors_before |-> dvVectors, deleted_before |-> dvDeleted,
                   vectors |-> r.vectors, deleted |-> r.deleted])
    /\ UNCHANGED <<dvDim, dvElem>>
    /\ UNCHANGED <<ptvVars, tcVars, dnVars, txVars, glVars, spVars, restVars>>

\* ------------------------------------- files cut short of their header

\* The header sizes of the three stores
StoreHeaderSize ==
    [dense |-> HEADER_SIZE, ptv |-> HeaderDiskSize,
     counts |-> POINT_TO_TOKENS_COUNT_HEADER_SIZE]

\* A point-to-values file, canonical or legacy, cut to fewer than 16 bytes
PtvTruncStart ==
    /\ ptvT \in MmapValueKinds
    /\ ptvHost \in Endians
    /\ ptvIter \in {i \in PtvInputs(ptvT) : Len(i) = 1}
    /\ ptvWritten = "cut"
    /\ \E e \in Endians, k \in 0..(StoreHeaderSize.ptv - 1) :
           ptvFile = Truncate(WriteFile(ptvT, ptvIter, e).f, k)
    /\ ptvLog = <<>>
    /\ ptvThr = [t \in Threads |-> IdleThread]

\* A counts file written by create, cut to fewer than 16 bytes
TcTruncStart ==
    /\ tcHost \in Endians
    /\ tcCounts \in {c \in TcInputs : AllFitU32(c) /\ Len(c) <= MaxCounts}
    /\ tcWritten = "cut"
    /\ \E k \in 0..(StoreHeaderSize.counts - 1) :
           tcFile = Truncate(CreatedFile(tcCounts), k)
    /\ tcLog = <<>>
    /\ tcCr = NoCreate

\* A vectors file cut to fewer than 4 bytes, beside no or a whole deleted file
DvTruncStart ==
    /\ \E k \in 0..(StoreHeaderSize.dense - 1) :
           dvVectors = DvHeaded(VECTORS_HEADER, k)
    /\ dvDeleted \in {Absent, DvHeaded(DELETED_HEADER, deleted_mmap_size(MaxVectors))}
    /\ dvDim \in 1..DvMaxDim
    /\ dvElem \in DvElems
    /\ dvLog = <<>>

\* ------------------------------------------------- sparse index: format

\* bitpacking::BitPacker4x::BLOCK_LEN
BLOCK_LEN == 128

SpWeightTypes == {"f32", "f16", "u8", "QuantizedU8"}

\* weight_size: the width of one weight on disk
weight_size(W) == IF W = "f32" THEN 4 ELSE IF W = "f16" THEN 2 ELSE 1

\* quantization_params_size: () or QuantizedU8Params (min: f32, diff256: f32)
quantization_params_size(W) == IF W = "QuantizedU8" THEN 8 ELSE 0

\* The offset of quantization_params in PostingListFileHeader
QPARAMS_OFFSET == 20

\* size_of::<PostingListFileHeader<W>>(): a repr(C) struct of u64, u32, u32,
\* u32 and the params, padded to its 8-byte alignment
SpHeaderSize(W) ==
    LET used == QPARAMS_OFFSET + quantization_params_size(W)
    IN  used + ((8 - (used % 8)) % 8)

\* size_of::<CompressedPostingChunk<W>>(): initial, offset, BLOCK_LEN weights
SpChunkSize(W) == 8 + BLOCK_LEN * weight_size(W)

\* size_of::<GenericPostingElement<W>>(): record_id and weight, padded to 4
SpRemainderSize(W) == 8

\* A u32, an f32 or an f16 in memory is the tuple of its bytes, the most
\* significant first; to_le_bytes and from_le_bytes reverse it.
U32Zero == <<0, 0, 0, 0>>

U32Max == <<255, 255, 255, 255>>

\* u32::wrapping_add(1)
U32Inc(v) ==
    [k \in 1..Len(v) |->
        IF \A j \in (k + 1)..Len(v) : v[j] = 255 THEN (v[k] + 1) % 256 ELSE v[k]]

\* u32::wrapping_sub(1)
U32Dec(v) ==
    [k \in 1..Len(v) |->
        IF \A j \in (k + 1)..Len(v) : v[j] = 0 THEN (v[k] + 255) % 256 ELSE v[k]]

\* last_id.map_or(0, |id| id + 1): the sum wraps in a release build
LastIdField(last_id) == IF last_id.some THEN U32Inc(last_id.v) ELSE U32Zero

\* header.last_id.checked_sub(1)
LastIdOf(field) ==
    IF field = U32Zero THEN [some |-> FALSE, v |-> U32Zero]
    ELSE [some |-> TRUE, v |-> U32Dec(field)]

\* encode_weight_le: the bit pattern of the weight, little-endian
encode_weight_le(W, value) == Reverse(value)

\* decode_weight_le
decode_weight_le(W, bytes) ==
    IF Len(bytes) # weight_size(W) THEN [ok |-> FALSE, v |-> <<>>]
    ELSE [ok |-> TRUE, v |-> Reverse(bytes)]

\* encode_quantization_params_le
encode_quantization_params_le(W, params) ==
    IF W = "QuantizedU8" THEN Reverse(params.min) \o Reverse(params.diff256)
    ELSE <<>>

\* decode_quantization_params_le
decode_quantization_params_le(W, bytes) ==
    IF W = "QuantizedU8"
    THEN [min |-> Reverse(SubSeq(bytes, 1, 4)), diff256 |-> Reverse(SubSeq(bytes, 5, 8))]
    ELSE <<>>

\* encode_posting_header_le: the zero-filled header with its fields
\* little-endian at their offsets
encode_posting_header_le(W, header) ==
    LET fields == ToLE(header.ids_start, 8) \o Reverse(header.last_id)
                      \o ToLE(header.ids_len, 4) \o ToLE(header.chunks_count, 4)
                      \o encode_quantization_params_le(W, header.quantization_params)
    IN  fields \o Zeros(SpHeaderSize(W) - Len(fields))

\* decode_posting_header_le
decode_posting_header_le(W, data) ==
    [ids_start |-> FromLE(SubSeq(data, 1, 8)),
     last_id |-> Reverse(SubSeq(data, 9, 12)),
     ids_len |-> FromLE(SubSeq(data, 13, 16)),
     chunks_count |-> FromLE(SubSeq(data, 17, 20)),
     quantization_params |->
         decode_quantization_params_le(W,
             SubSeq(data, QPARAMS_OFFSET + 1, QPARAMS_OFFSET + quantization_params_size(W)))]

\* The concatenation of n byte strings of one width
Concat(n, width, part(_)) ==
    [k \in 1..(n * width) |-> part(((k - 1) \div width) + 1)[((k - 1) % width) + 1]]

\* write_chunks_le: one chunk
SpChunkBytes(W, chunk) ==
    LET weight(i) == encode_weight_le(W, chunk.weights[i])
    IN  Reverse(chunk.initial) \o Reverse(chunk.offset)
            \o Concat(BLOCK_LEN, weight_size(W), weight)

write_chunks_le(W, chunks) ==
    LET one(c) == SpChunkBytes(W, chunks[c])
    IN  Concat(Len(chunks), SpChunkSize(W), one)

\* decode_chunks_le
decode_chunks_le(W, bytes, count) ==
    LET chunk_size == SpChunkSize(W)
        one(c) ==
            LET chunk_bytes == SubSeq(bytes, (c - 1) * chunk_size + 1, c * chunk_size)
            IN  [initial |-> Reverse(SubSeq(chunk_bytes, 1, 4)),
                 offset |-> Reverse(SubSeq(chunk_bytes, 5, 8)),
                 weights |-> [i \in 1..BLOCK_LEN |->
                     decode_weight_le(W, SubSeq(chunk_bytes,
                         8 + (i - 1) * weight_size(W) + 1, 8 + i * weight_size(W))).v]]
    IN  IF Len(bytes) # count * chunk_size THEN [ok |-> FALSE, v |-> <<>>]
        ELSE [ok |-> TRUE, v |-> [c \in 1..count |-> one(c)]]

\* write_remainders_le: record_id, weight at offset 4, zero padding; pad is
\* the byte left in the padding when the element is written from memory
SpRemainderBytes(W, remainder, pad) ==
    Reverse(remainder.record_id) \o encode_weight_le(W, remainder.weight)
        \o [k \in 1..(SpRemainderSize(W) - 4 - weight_size(W)) |-> pad]

write_remainders_le(W, remainders) ==
    Flatten([r \in 1..Len(remainders) |-> SpRemainderBytes(W, remainders[r], 0)])

\* decode_remainders_le
decode_remainders_le(W, bytes) ==
    LET remainder_size == SpRemainderSize(W)
        one(r) ==
            LET remainder == SubSeq(bytes, (r - 1) * remainder_size + 1, r * remainder_size)
            IN  [record_id |-> Reverse(SubSeq(remainder, 1, 4)),
                 weight |-> decode_weight_le(W, SubSeq(remainder, 5, 4 + weight_size(W))).v]
    IN  IF Len(bytes) % remainder_size # 0 THEN [ok |-> FALSE, v |-> <<>>]
        ELSE [ok |-> TRUE, v |-> [r \in 1..(Len(bytes) \div remainder_size) |-> one(r)]]

\* decode_postings_le(data, posting_count): every posting of the file, or the
\* first error
decode_postings_le(W, f, posting_count) ==
    LET header_bytes == posting_count * SpHeaderSize(W)
        header(i) == decode_posting_header_le(W, Bytes(f, i * SpHeaderSize(W), SpHeaderSize(W)))
        ids_end(i) == header(i).ids_start + header(i).ids_len
        chunks_end(i) == ids_end(i) + SpChunkSize(W) * header(i).chunks_count
        remainders_end(i) ==
            IF i + 1 < posting_count THEN header(i + 1).ids_start ELSE f.len
        bounded(i) ==
            /\ header(i).ids_start < Huge
            /\ header(i).ids_len < Huge
            /\ header(i).chunks_count < Huge
            /\ remainders_end(i) < Huge
            /\ header(i).ids_start <= ids_end(i)
            /\ ids_end(i) <= chunks_end(i)
            /\ chunks_end(i) <= remainders_end(i)
            /\ remainders_end(i) <= f.len
        chunks(i) == decode_chunks_le(W,
                         Bytes(f, ids_end(i), chunks_end(i) - ids_end(i)),
                         header(i).chunks_count)
        remainders(i) == decode_remainders_le(W,
                             Bytes(f, chunks_end(i), remainders_end(i) - chunks_end(i)))
        good(i) == bounded(i) /\ chunks(i).ok /\ remainders(i).ok
        posting(i) ==
            [id_data |-> Bytes(f, header(i).ids_start, header(i).ids_len),
             chunks |-> chunks(i).v,
             remainders |-> remainders(i).v,
             last_id |-> LastIdOf(header(i).last_id),
             quantization_params |-> header(i).quantization_params]
        bad == {i \in 0..(posting_count - 1) : ~good(i)}
        first == CHOOSE i \in bad : \A j \in bad : i <= j
    IN  IF header_bytes > f.len THEN [err |-> "header region", postings |-> <<>>]
        ELSE IF bad # {}
        THEN [err |-> IF bounded(first) THEN "byte size" ELSE "boundaries",
              postings |-> <<>>]
        ELSE [err |-> "none", postings |-> [k \in 1..posting_count |-> posting(k - 1)]]

RECURSIVE Sum(_)
Sum(s) == IF s = <<>> THEN 0 ELSE Head(s) + Sum(Tail(s))

\* ------------------------------------------- sparse index: write and read

\* PostingListView::store_size
SpStoreSize(W, posting) ==
    [id_data_bytes |-> Len(posting.id_data),
     chunks_count |-> Len(posting.chunks),
     total |-> Len(posting.id_data) + Len(posting.chunks) * SpChunkSize(W)
                  + Len(posting.remainders) * SpRemainderSize(W)]

\* The header convert_and_save builds for posting k of the index
SpPostingHeader(W, postings, k) ==
    [ids_start |-> Len(postings) * SpHeaderSize(W)
                      + Sum([j \in 1..(k - 1) |-> SpStoreSize(W, postings[j]).total]),
     last_id |-> LastIdField(postings[k].last_id),
     ids_len |-> SpStoreSize(W, postings[k]).id_data_bytes,
     chunks_count |-> SpStoreSize(W, postings[k]).chunks_count,
     quantization_params |-> postings[k].quantization_params]

\* transmute_to_u8(&posting_header) on a little-endian host: the fields in
\* host order, the padding of the struct as it was left in memory
SpHeaderFromMemory(W, header, pad) ==
    LET fields == ToLE(header.ids_start, 8) \o Reverse(header.last_id)
                      \o ToLE(header.ids_len, 4) \o ToLE(header.chunks_count, 4)
                      \o encode_quantization_params_le(W, header.quantization_params)
    IN  fields \o [k \in 1..(SpHeaderSize(W) - Len(fields)) |-> pad]

\* The bytes convert_and_save writes for the whole index: the header table,
\* then id data, chunks and remainders of every posting.  A big-endian host
\* serializes field by field, a little-endian host writes its memory.
SpIndexBytes(W, postings, host, pad) ==
    LET n == Len(postings)
        header(k) == IF host = "big"
                     THEN encode_posting_header_le(W, SpPostingHeader(W, postings, k))
                     ELSE SpHeaderFromMemory(W, SpPostingHeader(W, postings, k), pad)
        payload(k) ==
            postings[k].id_data
                \o write_chunks_le(W, postings[k].chunks)
                \o IF host = "big" THEN write_remainders_le(W, postings[k].remainders)
                   ELSE Flatten([r \in 1..Len(postings[k].remainders) |->
                            SpRemainderBytes(W, postings[k].remainders[r], pad)])
    IN  Flatten([k \in 1..n |-> header(k)]) \o Flatten([k \in 1..n |-> payload(k)])

\* The postings whose last_id + 1 overflows u32
SpOverflows(postings) ==
    {k \in 1..Len(postings) :
        postings[k].last_id.some /\ postings[k].last_id.v = U32Max}

\* convert_and_save(index, path): the data file, the config file and the
\* handle it leaves.  With overflow checks the sum last_id + 1 panics at the
\* first posting that overflows: the file then has its full length and the
\* headers written so far, and the config is not saved.
convert_and_save(W, postings, host, build, pad, config) ==
    LET bytes == SpIndexBytes(W, postings, host, pad)
        over == SpOverflows(postings)
        stop == CHOOSE k \in over : \A j \in over : k <= j
        written == SubSeq(bytes, 1, (stop - 1) * SpHeaderSize(W))
    IN  IF build = "debug" /\ over # {}
        THEN [status |-> "panic",
              f |-> FileOf(written \o Zeros(Len(bytes) - Len(written))),
              config |-> config, decoded |-> <<>>]
        ELSE [status |-> "ok", f |-> FileOf(bytes),
              config |-> [posting_count |-> Len(postings)],
              decoded |-> IF host = "big" THEN postings ELSE <<>>]

NoConfig == [posting_count |-> -1]

\* load(path): the handle, or the error of read_json, of open_read_mmap or of
\* the decode a big-endian host makes
SpLoadCall(W, f, config, host) ==
    LET d == decode_postings_le(W, f, config.posting_count)
    IN  IF config = NoConfig THEN [status |-> "err", err |-> "config", decoded |-> <<>>]
        ELSE IF f = Absent THEN [status |-> "err", err |-> "mmap", decoded |-> <<>>]
        ELSE IF host = "big"
        THEN IF d.err # "none" THEN [status |-> "err", err |-> d.err, decoded |-> <<>>]
             ELSE [status |-> "ok", err |-> "none", decoded |-> d.postings]
        ELSE [status |-> "ok", err |-> "none", decoded |-> <<>>]

NoPosting ==
    [id_data |-> <<>>, chunks |-> <<>>, remainders |-> <<>>,
     last_id |-> [some |-> FALSE, v |-> U32Zero], quantization_params |-> <<>>]

\* get(id) on a handle: the posting it serves, None, or a panic of a slice
\* index out of the mapping.  A big-endian host serves the decoded postings,
\* a little-endian host reads the mapping in place.
SpGetCall(W, f, posting_count, host, decoded, id) ==
    LET hs == SpHeaderSize(W)
        header == decode_posting_header_le(W, Bytes(f, id * hs, hs))
        ids_end == header.ids_start + header.ids_len
        remainders_start == ids_end + header.chunks_count * SpChunkSize(W)
        remainders_end ==
            IF id + 1 < posting_count
            THEN decode_posting_header_le(W, Bytes(f, (id + 1) * hs, hs)).ids_start
            ELSE f.len
        chunks == decode_chunks_le(W, Bytes(f, ids_end, remainders_start - ids_end),
                                   header.chunks_count)
        remainders == decode_remainders_le(W,
                          Bytes(f, remainders_start, remainders_end - remainders_start))
    IN  IF id >= posting_count THEN [ret |-> "none", posting |-> NoPosting]
        ELSE IF host = "big"
        THEN IF id < Len(decoded) THEN [ret |-> "some", posting |-> decoded[id + 1]]
             ELSE [ret |-> "none", posting |-> NoPosting]
        ELSE IF (id + 1) * hs > f.len THEN [ret |-> "panic", posting |-> NoPosting]
        ELSE IF id + 1 < posting_count /\ (id + 2) * hs > f.len
        THEN [ret |-> "panic", posting |-> NoPosting]
        ELSE IF remainders_end >= remainders_start
                  /\ (remainders_end - remainders_start) % SpRemainderSize(W) # 0
        THEN [ret |-> "none", posting |-> NoPosting]
        ELSE IF ids_end > f.len \/ remainders_start > f.len
                  \/ remainders_start > remainders_end \/ remainders_end > f.len
        THEN [ret |-> "panic", posting |-> NoPosting]
        ELSE [ret |-> "some",
              posting |-> [id_data |-> Bytes(f, header.ids_start, header.ids_len),
                           chunks |-> chunks.v,
                           remainders |-> remainders.v,
                           last_id |-> LastIdOf(header.last_id),
                           quantization_params |-> header.quantization_params]]

\* ------------------------------------------------ sparse index: the store

SpMaxPostings == 2

SpMaxRemainders == 2

\* The byte found in struct padding written from memory
SpPads == {0, 165}

\* Two weights of every type, as bit patterns
SpWeight(W, n) ==
    IF W = "f32" THEN <<n, 2, 3, 4>> ELSE IF W = "f16" THEN <<n, 2>> ELSE <<n>>

SpParams(W) ==
    IF W = "QuantizedU8" THEN [min |-> <<1, 2, 3, 4>>, diff256 |-> <<5, 6, 7, 8>>]
    ELSE <<>>

\* A posting list without elements
SpEmpty(W) ==
    [id_data |-> <<>>, chunks |-> <<>>, remainders |-> <<>>,
     last_id |-> [some |-> FALSE, v |-> U32Zero], quantization_params |-> SpParams(W)]

\* A posting list of n elements below one block: remainders only
SpTail(W, n) ==
    [id_data |-> <<>>, chunks |-> <<>>,
     remainders |-> [r \in 1..n |-> [record_id |-> <<0, 0, 1, r>>, weight |-> SpWeight(W, r)]],
     last_id |-> [some |-> TRUE, v |-> <<0, 0, 1, n>>],
     quantization_params |-> SpParams(W)]

\* A posting list of one packed block and one more element
SpPacked(W) ==
    [id_data |-> <<9, 8, 7, 6>>,
     chunks |-> <<[initial |-> <<0, 0, 1, 2>>, offset |-> <<0, 0, 0, 0>>,
                   weights |-> [i \in 1..BLOCK_LEN |-> SpWeight(W, 1 + (i % 2))]]>>,
     remainders |-> <<[record_id |-> <<0, 0, 2, 5>>, weight |-> SpWeight(W, 3)]>>,
     last_id |-> [some |-> TRUE, v |-> <<0, 0, 2, 5>>],
     quantization_params |-> SpParams(W)]

\* A posting list whose last element is the point u32::MAX
SpLastMax(W) ==
    [id_data |-> <<>>, chunks |-> <<>>,
     remainders |-> <<[record_id |-> U32Max, weight |-> SpWeight(W, 1)]>>,
     last_id |-> [some |-> TRUE, v |-> U32Max],
     quantization_params |-> SpParams(W)]

\* The in-memory indexes saved: one packed posting, or a first posting
\* (empty as dimension 0 is, or not) followed by a posting of remainders
SpInputs(W) ==
    {i \in {<<SpPacked(W)>>}
            \cup {<<p, q>> : p \in {SpEmpty(W), SpTail(W, 1)},
                             q \in {SpTail(W, n) : n \in 1..SpMaxRemainders}
                                       \cup {SpLastMax(W)}} :
        Len(i) <= SpMaxPostings}

\* What a written file is turned into before it is loaded again: cut one
\* byte short of its header table, the first ids_start set past the end of
\* the file, the last ids_start set into the header table, one byte appended
SpDamages == {"truncated header", "bogus start", "overlap", "odd tail"}

SpDamage(W, f, posting_count, d) ==
    LET hs == SpHeaderSize(W)
    IN  IF d = "truncated header" THEN Truncate(f, posting_count * hs - 1)
        ELSE IF d = "bogus start" THEN Wr(f, 0, ToLE(f.len + 1024, 8))
        ELSE IF d = "overlap"
        THEN Wr(f, (posting_count - 1) * hs, ToLE(posting_count * hs - 16, 8))
        ELSE Truncate(f, f.len + 1)

NoHandle == [status |-> "none", decoded |-> <<>>]

NoCall == [op |-> "none", id |-> 0, ret |-> "none", postings |-> <<>>]

SpIdle ==
    /\ spW = "none"
    /\ spHost = "little"
    /\ spBuild = "release"
    /\ spPad = 0
    /\ spIndex = <<>>
    /\ spFile = Absent
    /\ spConfig = NoConfig
    /\ spKind = "none"
    /\ spH = NoHandle
    /\ spLast = NoCall

SpStart ==
    /\ spW \in SpWeightTypes
    /\ spHost \in Endians
    /\ spPad \in IF spHost = "big" THEN {0} ELSE SpPads
    /\ spIndex \in SpInputs(spW)
    /\ spBuild \in IF SpOverflows(spIndex) = {} THEN {"release"}
                   ELSE {"release", "debug"}
    /\ spFile = Absent
    /\ spConfig = NoConfig
    /\ spKind = "none"
    /\ spH = NoHandle
    /\ spLast = NoCall

SpOthers == <<ptvVars, tcVars, dnVars, txVars, glVars, dvVars, restVars>>

\* InvertedIndexCompressedMmap::convert_and_save(index, path)
SpConvertAndSave ==
    /\ spW # "none"
    /\ spFile = Absent
    /\ LET r == convert_and_save(spW, spIndex, spHost, spBuild, spPad, spConfig)
       IN  /\ spFile' = r.f
           /\ spConfig' = r.config
           /\ spKind' = IF r.status = "ok" THEN "saved" ELSE "panicked"
           /\ spH' = IF r.status = "ok" THEN [status |-> "ok", decoded |-> r.decoded]
                     ELSE NoHandle
           /\ spLast' = [op |-> "convert_and_save", id |-> 0, ret |-> r.status,
                         postings |-> <<>>]
    /\ UNCHANGED <<spW, spHost, spBuild, spPad, spIndex>>
    /\ UNCHANGED SpOthers

\* The file changes on disk while no handle is open
SpDamageFile ==
    /\ spKind = "saved"
    /\ \E d \in SpDamages :
           /\ d = "overlap" => Len(spIndex) > 1
           /\ spFile' = SpDamage(spW, spFile, spConfig.posting_count, d)
           /\ spKind' = d
    /\ spH' = NoHandle
    /\ spLast' = NoCall
    /\ UNCHANGED <<spW, spHost, spBuild, spPad, spIndex, spConfig>>
    /\ UNCHANGED SpOthers

\* InvertedIndexCompressedMmap::load(path)
SpLoad ==
    /\ spFile # Absent
    /\ LET r == SpLoadCall(spW, spFile, spConfig, spHost)
       IN  /\ spH' = [status |-> r.status, decoded |-> r.decoded]
           /\ spLast' = [op |-> "load", id |-> 0, ret |-> r.status, postings |-> <<>>]
    /\ UNCHANGED <<spW, spHost, spBuild, spPad, spIndex, spFile, spConfig, spKind>>
    /\ UNCHANGED SpOthers

\* InvertedIndexCompressedMmap::get(id) on the open handle, for every id of
\* the index and one past it
SpGet ==
    /\ spH.status = "ok"
    /\ \E id \in 0..SpMaxPostings :
           LET r == SpGetCall(spW, spFile, spConfig.posting_count, spHost,
                              spH.decoded, id)
           IN  spLast' = [op |-> "get", id |-> id, ret |-> r.ret,
                          postings |-> <<r.posting>>]
    /\ UNCHANGED <<spW, spHost, spBuild, spPad, spIndex, spFile, spConfig, spKind, spH>>
    /\ UNCHANGED SpOthers

\* decode_postings_le over the bytes of the data file, as the tests call it
SpDecodeRaw ==
    /\ spFile # Absent
    /\ spConfig # NoConfig
    /\ LET r == decode_postings_le(spW, spFile, spConfig.posting_count)
       IN  spLast' = [op |-> "decode", id |-> 0, ret |-> r.err, postings |-> r.postings]
    /\ UNCHANGED <<spW, spHost, spBuild, spPad, spIndex, spFile, spConfig, spKind, spH>>
    /\ UNCHANGED SpOthers

\* ------------------------------------- token counts: opens side by side

\* The calls of open that run side by side
Openers == {1, 2}

\* A call of open that has not begun: its position, the length stat gave,
\* the outcome of the header sniff, its mapping of the legacy file, the
\* temporary file of its atomic_save and whether the writer closure
\* succeeded, the returned handle and its counts
NoOpen ==
    [pc |-> "stat", file_len |-> 0, is_new |-> FALSE, map |-> Absent,
     tmp |-> Absent, wrote |-> FALSE,
     h |-> [status |-> "none", path |-> "none", len |-> 0], vec |-> <<>>]

\* What the writer closure of migrate_legacy has put into the temporary
\* file when it returns: the header and the counts before the first one
\* that does not fit, or all of them
MigrationTemp(map, host) ==
    LET len == map.len \div WordSize
        detected == detect_legacy_counts_endian(map, host)
        value(i) == IF detected = "little"
                    THEN legacy_usize_from_le_bytes(Bytes(map, i * WordSize, WordSize))
                    ELSE legacy_usize_from_be_bytes(Bytes(map, i * WordSize, WordSize))
        over == {i \in 0..(len - 1) : OverU32(value(i))}
        written == IF over = {} THEN len
                   ELSE CHOOSE i \in over : \A j \in over : i <= j
    IN  Truncate(NewFormatFile(len, [i \in 0..(len - 1) |-> U32LeBytes(value(i))]),
                 POINT_TO_TOKENS_COUNT_HEADER_SIZE + 4 * written)

\* The same, leaving the temporary file of a failed closure in place
atomic_save_finish_keeps_temp(f, tmp, wrote) ==
    IF wrote THEN [f |-> tmp, tmp |-> Absent] ELSE [f |-> f, tmp |-> tmp]

\* atomic_save after the writer closure returned: the temporary file is
\* renamed over the path, or unlinked when the closure failed
atomic_save_finish(f, tmp, wrote) ==
    IF wrote THEN [f |-> tmp, tmp |-> Absent] ELSE [f |-> f, tmp |-> Absent]

CoIdle ==
    /\ tcOrig = Absent
    /\ tcOpens = [t \in Openers |-> NoOpen]

\* Legacy counts files of either byte order, whole or cut inside a word
CoInputs == SeqsUpTo(CountValues, MaxCounts)

CoStart ==
    /\ tcHost \in Endians
    /\ tcCounts \in CoInputs
    /\ tcWritten \in Endians
    /\ \E cut \in {0, 3} :
           /\ cut <= Len(tcCounts) * WordSize
           /\ tcFile = Truncate(LegacyCountsFile(tcCounts, tcWritten),
                                Len(tcCounts) * WordSize - cut)
    /\ tcOrig = tcFile
    /\ tcLog = <<>>
    /\ tcCr = NoCreate
    /\ tcOpens = [t \in Openers |-> NoOpen]

CoOthers == <<ptvVars, dnVars, txVars, glVars, dvVars, spVars, cvVars, drVars, swVars>>

CoTcFixed == <<tcHost, tcCounts, tcWritten, tcLog, tcCr, tcOrig>>

\* std::fs::metadata(path): the length of the file
CoStat(t) ==
    /\ tcOpens[t].pc = "stat"
    /\ tcOrig # Absent
    /\ tcOpens' = [tcOpens EXCEPT ![t].file_len = tcFile.len, ![t].pc = "sniff"]
    /\ UNCHANGED <<tcFile, CoTcFixed, CoOthers>>

\* The header sniff: a file that stat found long enough is opened and its
\* first four bytes are compared with the magic
CoSniff(t) ==
    /\ tcOpens[t].pc = "sniff"
    /\ LET new == /\ tcOpens[t].file_len >= POINT_TO_TOKENS_COUNT_HEADER_SIZE
                  /\ tcFile.len >= 4
                  /\ Bytes(tcFile, 0, 4) = POINT_TO_TOKENS_COUNT_MAGIC
       IN  tcOpens' = [tcOpens EXCEPT ![t].is_new = new,
                                      ![t].pc = IF new THEN "final" ELSE "map"]
    /\ UNCHANGED <<tcFile, CoTcFixed, CoOthers>>

\* File::open(path) and Mmap::map: the bytes of the file now at the path
CoMap(t) ==
    /\ tcOpens[t].pc = "map"
    /\ tcOpens' = [tcOpens EXCEPT ![t].map = tcFile, ![t].pc = "migrate"]
    /\ UNCHANGED <<tcFile, CoTcFixed, CoOthers>>

\* migrate_legacy up to the return of the writer closure
CoMigrate(t) ==
    /\ tcOpens[t].pc = "migrate"
    /\ LET map == tcOpens[t].map
       IN  IF map.len % WordSize # 0
           THEN tcOpens' = [tcOpens EXCEPT
                    ![t].h = [status |-> "err", path |-> "aborted", len |-> 0],
                    ![t].pc = "done"]
           ELSE tcOpens' = [tcOpens EXCEPT
                    ![t].tmp = MigrationTemp(map, tcHost),
                    ![t].wrote = migrate_legacy(map, tcHost).ok,
                    ![t].pc = "save"]
    /\ UNCHANGED <<tcFile, CoTcFixed, CoOthers>>

\* The end of atomic_save, and of migrate_legacy
CoSave(t) ==
    /\ tcOpens[t].pc = "save"
    /\ LET r == atomic_save_finish(tcFile, tcOpens[t].tmp, tcOpens[t].wrote)
       IN  /\ tcFile' = r.f
           /\ tcOpens' = [tcOpens EXCEPT
                  ![t].tmp = r.tmp,
                  ![t].h = IF tcOpens[t].wrote THEN @
                           ELSE [status |-> "err", path |-> "aborted", len |-> 0],
                  ![t].pc = IF tcOpens[t].wrote THEN "final" ELSE "done"]
    /\ UNCHANGED <<CoTcFixed, CoOthers>>

\* open_write_mmap(path) and validate_header
CoFinal(t) ==
    /\ tcOpens[t].pc = "final"
    /\ LET v == validate_header(tcFile)
           h == [status |-> IF v.ok THEN "ok" ELSE "err",
                 path |-> IF tcOpens[t].is_new THEN "fast" ELSE "migrated",
                 len |-> v.len]
       IN  tcOpens' = [tcOpens EXCEPT
               ![t].h = h,
               ![t].vec = IF v.ok THEN TcToVec(tcFile, h) ELSE <<>>,
               ![t].pc = "done"]
    /\ UNCHANGED <<tcFile, CoTcFixed, CoOthers>>

\* ------------------------------------------------ scalars: stable_hash

\* The bytes of an integer in the memory of the host
NativeBytes(v, host) == IF host = "little" THEN Reverse(v) ELSE v

\* {integer}::to_ne_bytes
to_ne_bytes(v, host) == NativeBytes(v, host)

\* {integer}::to_le_bytes: the memory of the value, swapped on a big-endian host
to_le_bytes(v, host) ==
    IF host = "little" THEN NativeBytes(v, host) ELSE Reverse(NativeBytes(v, host))

\* usize as u64: zero-extended on a host with 4-byte words
AsU64(v) == Zeros(8 - Len(v)) \o v

\* The scalar types with a StableHash impl
HashScalars == {"i32", "u32", "u64", "usize"}

\* StableHash::stable_hash(&value, write): the calls of write, in order
RECURSIVE stable_hash(_, _)
stable_hash(x, host) ==
    CASE x.ty \in {"i32", "u32", "u64"} -> <<to_le_bytes(x.v, host)>>
      [] x.ty = "usize" -> stable_hash([ty |-> "u64", v |-> AsU64(x.v)], host)
      [] x.ty = "pair" -> stable_hash(x.v[1], host) \o stable_hash(x.v[2], host)

\* Hasher::write: the hasher takes the bytes it is handed, in order
HasherWrite(state, bytes) == state \o bytes

\* <StableHashed<T> as Hash>::hash(&self, state): the bytes the hasher was fed
RECURSIVE HasherFeed(_, _)
HasherFeed(state, writes) ==
    IF writes = <<>> THEN state
    ELSE HasherFeed(HasherWrite(state, Head(writes)), Tail(writes))

StableHashed_hash(x, host) == HasherFeed(<<>>, stable_hash(x, host))

\* ---------------------------------- scalars: the mmap storage conversions

\* The element types with a MmapEndianConvertible impl
StorageScalars == {"u8", "u16", "u32", "u64", "f32", "f16"}

\* size_of::<T>()
ScalarSize(T, word) ==
    CASE T = "u8" -> 1
      [] T \in {"u16", "f16"} -> 2
      [] T \in {"i32", "u32", "f32"} -> 4
      [] T = "u64" -> 8
      [] T = "usize" -> word

\* {integer}::to_le and {integer}::from_le: the value itself on a
\* little-endian host, swap_bytes on a big-endian one
to_le(v, host) == IF host = "little" THEN v ELSE Reverse(v)

from_le(v, host) == IF host = "little" THEN v ELSE Reverse(v)

\* MmapEndianConvertible::to_le_storage; a float is its bit pattern
\* (to_bits, from_bits)
to_le_storage(T, v, host) ==
    IF T = "u8" THEN v ELSE to_le(v, host)

\* The same without the byte swap
from_le_storage_as_is(T, stored, host) == stored

\* MmapEndianConvertible::from_le_storage
from_le_storage(T, stored, host) ==
    IF T = "u8" THEN stored ELSE from_le(stored, host)

\* ------------------------------------------------ scalars: the calls

NoConversion == [op |-> "none", stored |-> <<>>, back |-> <<>>, writes |-> <<>>, fed |-> <<>>]

CvIdle ==
    /\ cvHost = "little"
    /\ cvWord = 8
    /\ cvValue = [ty |-> "u8", v |-> <<0>>]
    /\ cvLast = NoConversion

\* Bytes to build values from: zero, one, the sign bit, all ones
CvBytes == {0, 1, 128, 255}

\* The values of the unit tests and some more of each type
CvValues(T, word) ==
    CASE T = "u8" -> {<<b>> : b \in CvBytes}
      [] T \in {"u16", "f16"} -> {<<a, b>> : a, b \in CvBytes} \cup {<<60, 0>>, <<124, 1>>}
      [] T = "i32" -> {<<17, 34, 51, 68>>, <<255, 255, 255, 255>>, <<128, 0, 0, 0>>}
      [] T = "u32" -> {<<1, 2, 3, 4>>, <<170, 187, 204, 221>>, <<0, 0, 0, 0>>}
      [] T = "f32" -> {<<66, 246, 233, 121>>, <<127, 128, 0, 1>>, <<63, 128, 0, 0>>,
                       <<0, 0, 128, 127>>}
      [] T = "u64" -> {<<1, 2, 3, 4, 5, 6, 7, 8>>, <<0, 0, 0, 1, 0, 0, 0, 0>>,
                       <<255, 0, 0, 0, 0, 0, 0, 0>>}
      [] T = "usize" -> IF word = 4 THEN {<<1, 2, 3, 4>>, <<0, 0, 0, 5>>}
                        ELSE {<<1, 2, 3, 4, 5, 6, 7, 8>>, <<0, 0, 0, 0, 0, 0, 0, 5>>}

CvScalarsOf(types, word) ==
    UNION {{[ty |-> T, v |-> v] : v \in CvValues(T, word)} : T \in types}

\* A scalar or a pair of scalars, not hashed yet
CvHashStart ==
    /\ cvHost \in Endians
    /\ cvWord \in {4, 8}
    /\ cvValue \in CvScalarsOf(HashScalars, cvWord) \cup
                   {[ty |-> "pair", v |-> <<a, b>>] :
                        a, b \in CvScalarsOf(HashScalars, cvWord)}
    /\ cvLast = NoConversion

\* An element of a mapped vector file, not converted yet
CvStorageStart ==
    /\ cvHost \in Endians
    /\ cvWord = 8
    /\ cvValue \in CvScalarsOf(StorageScalars, cvWord)
    /\ cvLast = NoConversion

CvOthers == <<ptvVars, tcVars, dnVars, txVars, glVars, dvVars, spVars, coVars, drVars, swVars>>

\* value.stable_hash(&mut |bytes| out.extend_from_slice(bytes))
CvStableHash ==
    /\ cvValue.ty \in HashScalars \cup {"pair"}
    /\ cvLast.op = "none"
    /\ cvLast' = [cvLast EXCEPT !.op = "stable_hash",
                                !.writes = stable_hash(cvValue, cvHost)]
    /\ UNCHANGED <<cvHost, cvWord, cvValue, CvOthers>>

\* StableHashed(value).hash(&mut state)
CvHash ==
    /\ cvValue.ty \in HashScalars \cup {"pair"}
    /\ cvLast.op \in {"none", "stable_hash"}
    /\ cvLast' = [cvLast EXCEPT !.op = "hash",
                                !.fed = StableHashed_hash(cvValue, cvHost)]
    /\ UNCHANGED <<cvHost, cvWord, cvValue, CvOthers>>

\* value.to_le_storage()
CvToLeStorage ==
    /\ cvValue.ty \in StorageScalars
    /\ cvLast.op = "none"
    /\ cvLast' = [cvLast EXCEPT !.op = "to_le_storage",
                                !.stored = to_le_storage(cvValue.ty, cvValue.v, cvHost)]
    /\ UNCHANGED <<cvHost, cvWord, cvValue, CvOthers>>

\* T::from_le_storage(stored)
CvFromLeStorage ==
    /\ cvLast.op = "to_le_storage"
    /\ cvLast' = [cvLast EXCEPT !.op = "from_le_storage",
                                !.back = from_le_storage(cvValue.ty, cvLast.stored, cvHost)]
    /\ UNCHANGED <<cvHost, cvWord, cvValue, CvOthers>>

\* ------------------------------------------------ dense vectors: reads

\* The element type of a store whose elements take size_of_T bytes
DrType(size_of_T) == IF size_of_T = 1 THEN "u8" ELSE "f32"

\* typed_slice_from_bytes: n_values elements read from the bytes as the
\* host reads its own memory
typed_slice_from_bytes(bytes, count, size_of_T, host) ==
    [i \in 1..count |->
        LET chunk == SubSeq(bytes, (i - 1) * size_of_T + 1, i * size_of_T)
        IN  IF host = "little" THEN Reverse(chunk) ELSE chunk]

\* The same, keeping the elements as they are stored
decode_vectors_as_stored(mmap, dim, num_vectors, size_of_T, host) ==
    LET n_values == dim * num_vectors
        n_bytes == n_values * size_of_T
    IN  typed_slice_from_bytes(Bytes(mmap, HEADER_SIZE, n_bytes),
                               n_values, size_of_T, host)

\* MmapDenseVectors::decode_vectors
decode_vectors(mmap, dim, num_vectors, size_of_T, host) ==
    LET n_values == dim * num_vectors
        n_bytes == n_values * size_of_T
        stored == typed_slice_from_bytes(Bytes(mmap, HEADER_SIZE, n_bytes),
                                         n_values, size_of_T, host)
    IN  [i \in 1..n_values |->
            from_le_storage(DrType(size_of_T), stored[i], host)]

NoVector == [some |-> FALSE, v |-> <<>>]

\* The handle open builds from the vectors file on a host
DrHandle(vectors, dim, num_vectors, size_of_T, host, multi) ==
    [dim |-> dim, num_vectors |-> num_vectors, size_of_T |-> size_of_T,
     mmap |-> vectors,
     mmap_seq |-> IF multi THEN vectors ELSE Absent,
     decoded_vectors |->
         IF host = "big"
         THEN [some |-> TRUE,
               v |-> decode_vectors(vectors, dim, num_vectors, size_of_T, host)]
         ELSE NoVector]

\* MmapDenseVectors::data_offset: -1 for None
data_offset(h, key) ==
    LET vector_data_length == h.dim * h.size_of_T
        offset == key * vector_data_length + HEADER_SIZE
    IN  IF key >= h.num_vectors THEN 0 - 1 ELSE offset

\* MmapDenseVectors::raw_vector_offset::<P>
raw_vector_offset(h, offset, P, host) ==
    IF h.decoded_vectors.some
    THEN LET vector_start == (offset - HEADER_SIZE) \div h.size_of_T
             vector_end == vector_start + h.dim
         IN  SubSeq(h.decoded_vectors.v, vector_start + 1, vector_end)
    ELSE LET mmap == IF P = "Sequential" /\ h.mmap_seq # Absent
                     THEN h.mmap_seq ELSE h.mmap
             byte_slice == Bytes(mmap, offset, h.dim * h.size_of_T)
         IN  typed_slice_from_bytes(byte_slice, h.dim, h.size_of_T, host)

\* MmapDenseVectors::get_vector_opt::<P>
get_vector_opt(h, key, P, host) ==
    LET offset == data_offset(h, key)
    IN  IF offset < 0 THEN NoVector
        ELSE [some |-> TRUE, v |-> raw_vector_offset(h, offset, P, host)]

AccessPatterns == {"Random", "Sequential"}

\* The keys read: those of the vectors and one past the largest store
DrKeys == 0..(MaxVectors + 1)

NoDenseHandle ==
    [dim |-> 0, num_vectors |-> 0, size_of_T |-> 0, mmap |-> Absent,
     mmap_seq |-> Absent, decoded_vectors |-> NoVector]

NoRead == [key |-> 0, P |-> "none", ret |-> [host \in Endians |-> NoVector]]

DrIdle ==
    /\ drMulti = FALSE
    /\ drH = [host \in Endians |-> NoDenseHandle]
    /\ drLast = NoRead

\* n payload bytes, no two neighbours alike
DrPayload(n, seed) == [i \in 1..n |-> (seed + 37 * i) % 256]

\* A vectors file of up to MaxVectors vectors of u8 or f32, not opened yet
DrStart ==
    /\ dvDim \in 1..DvMaxDim
    /\ dvElem \in DvElems
    /\ \E num \in 0..MaxVectors, seed \in {1, 100} :
           dvVectors = FileOf(VECTORS_HEADER \o DrPayload(num * dvDim * dvElem, seed))
    /\ dvDeleted = Absent
    /\ dvLog = <<>>
    /\ drMulti \in BOOLEAN
    /\ drH = [host \in Endians |-> NoDenseHandle]
    /\ drLast = NoRead

DrOthers == <<ptvVars, tcVars, dnVars, txVars, glVars, spVars, coVars, cvVars, swVars>>

\* MmapDenseVectors::open on a little-endian and on a big-endian host, over
\* the same bytes
DrOpen ==
    /\ dvElem # 0
    /\ drH["little"].mmap = Absent
    /\ LET r == DvOpenCall(dvVectors, dvDeleted, dvDim, dvElem)
       IN  /\ r.err = "none"
           /\ dvVectors' = r.vectors
           /\ dvDeleted' = r.deleted
           /\ drH' = [host \in Endians |->
                         DrHandle(r.vectors, dvDim, r.num_vectors, dvElem, host, drMulti)]
    /\ UNCHANGED <<dvDim, dvElem, dvLog, drMulti, drLast, DrOthers>>

\* get_vector_opt::<P>(key) on the handle of either host
DrGetVectorOpt(key, P) ==
    /\ drH["little"].mmap # Absent
    /\ drLast' = [key |-> key, P |-> P,
                  ret |-> [host \in Endians |-> get_vector_opt(drH[host], key, P, host)]]
    /\ UNCHANGED <<dvVars, drMulti, drH, DrOthers>>

\* ------------------------------------ sparse index: the save step by step

\* file_length of convert_and_save
SpFileLength(W, postings) ==
    Len(postings) * SpHeaderSize(W)
        + Sum([k \in 1..Len(postings) |-> SpStoreSize(W, postings[k]).total])

\* The statements of convert_and_save after the payloads are handed to the
\* BufWriter, with the config saved first
SwAfterConfigFirst(pc) ==
    CASE pc = "payloads" -> "config"
      [] pc = "config" -> "flush"
      [] pc = "flush" -> "sync"
      [] pc = "sync" -> "done"

\* The statements of convert_and_save after the payloads are handed to the
\* BufWriter: buf.flush(), file.sync_all(), atomic_save_json, return
SwAfter(pc) ==
    CASE pc = "payloads" -> "flush"
      [] pc = "flush" -> "sync"
      [] pc = "sync" -> "config"
      [] pc = "config" -> "done"

NoSeen == [status |-> "none", err |-> "none", f |-> Absent]

SwIdle ==
    /\ swPc = "none"
    /\ swBuf = <<>>
    /\ swPos = 0
    /\ swDurable = Absent
    /\ swSeen = NoSeen

\* An index in memory and an empty directory
SwStart ==
    /\ SpStart
    /\ swPc = "start"
    /\ swBuf = <<>>
    /\ swPos = 0
    /\ swDurable = Absent
    /\ swSeen = NoSeen

SwOthers == <<ptvVars, tcVars, dnVars, txVars, glVars, dvVars, coVars, cvVars, drVars>>

SwSpFixed == <<spW, spHost, spBuild, spPad, spIndex, spKind, spLast>>

\* create_and_ensure_length(file_path, file_length)
SwCreate ==
    /\ swPc = "start"
    /\ spFile' = ZeroFile(SpFileLength(spW, spIndex))
    /\ swPc' = "headers"
    /\ UNCHANGED <<swBuf, swPos, swDurable, swSeen, spConfig, spH, SwSpFixed, SwOthers>>

\* The loop over the posting headers: each goes to the BufWriter; with
\* overflow checks last_id + 1 panics at the first posting that overflows
SwHeaders ==
    /\ swPc = "headers"
    /\ LET bytes == SpIndexBytes(spW, spIndex, spHost, spPad)
           over == SpOverflows(spIndex)
           stop == CHOOSE k \in over : \A j \in over : k <= j
       IN  IF spBuild = "debug" /\ over # {}
           THEN /\ swBuf' = swBuf \o SubSeq(bytes, 1, (stop - 1) * SpHeaderSize(spW))
                /\ swPc' = "unwind"
           ELSE /\ swBuf' = swBuf \o SubSeq(bytes, 1, Len(spIndex) * SpHeaderSize(spW))
                /\ swPc' = "payloads"
    /\ UNCHANGED <<swPos, swDurable, swSeen, spFile, spConfig, spH, SwSpFixed, SwOthers>>

\* The panic unwinds: the BufWriter is dropped and writes what it holds
SwUnwind ==
    /\ swPc = "unwind"
    /\ spFile' = Wr(spFile, swPos, swBuf)
    /\ swPos' = swPos + Len(swBuf)
    /\ swBuf' = <<>>
    /\ swPc' = "panicked"
    /\ UNCHANGED <<swDurable, swSeen, spConfig, spH, SwSpFixed, SwOthers>>

\* The loop over the posting payloads: id data, chunks, remainders
SwPayloads ==
    /\ swPc = "payloads"
    /\ LET bytes == SpIndexBytes(spW, spIndex, spHost, spPad)
       IN  swBuf' = swBuf \o SubSeq(bytes, Len(spIndex) * SpHeaderSize(spW) + 1, Len(bytes))
    /\ swPc' = SwAfter("payloads")
    /\ UNCHANGED <<swPos, swDurable, swSeen, spFile, spConfig, spH, SwSpFixed, SwOthers>>

\* A BufWriter that is full writes what it holds to the file before it
\* takes more
SwSpill ==
    /\ swPc = "payloads"
    /\ swBuf # <<>>
    /\ spFile' = Wr(spFile, swPos, swBuf)
    /\ swPos' = swPos + Len(swBuf)
    /\ swBuf' = <<>>
    /\ UNCHANGED <<swPc, swDurable, swSeen, spConfig, spH, SwSpFixed, SwOthers>>

\* buf.flush()
SwFlush ==
    /\ swPc = "flush"
    /\ spFile' = Wr(spFile, swPos, swBuf)
    /\ swPos' = swPos + Len(swBuf)
    /\ swBuf' = <<>>
    /\ swPc' = SwAfter("flush")
    /\ UNCHANGED <<swDurable, swSeen, spConfig, spH, SwSpFixed, SwOthers>>

\* file.sync_all()
SwSync ==
    /\ swPc = "sync"
    /\ swDurable' = spFile
    /\ swPc' = SwAfter("sync")
    /\ UNCHANGED <<swBuf, swPos, swSeen, spFile, spConfig, spH, SwSpFixed, SwOthers>>

\* atomic_save_json of the config; then the handle is built
SwConfig ==
    /\ swPc = "config"
    /\ spConfig' = [posting_count |-> Len(spIndex)]
    /\ swPc' = SwAfter("config")
    /\ spH' = IF swPc' = "done"
              THEN [status |-> "ok",
                    decoded |-> IF spHost = "big" THEN spIndex ELSE <<>>]
              ELSE spH
    /\ UNCHANGED <<swBuf, swPos, swDurable, swSeen, spFile, SwSpFixed, SwOthers>>

\* The machine goes down inside convert_and_save or after it: the BufWriter
\* is lost, and the data file is found as it was written or as it was last
\* synced
SwCrash ==
    /\ swPc \in {"headers", "payloads", "flush", "sync", "config", "done"}
    /\ spFile' \in {spFile, swDurable}
    /\ swBuf' = <<>>
    /\ swPc' = "crashed"
    /\ spH' = NoHandle
    /\ UNCHANGED <<swPos, swDurable, swSeen, spConfig, SwSpFixed, SwOthers>>

\* load(path) by a reader of the directory, at any point
SwLoad ==
    /\ swPc # "none"
    /\ LET r == SpLoadCall(spW, spFile, spConfig, spHost)
       IN  swSeen' = [status |-> r.status, err |-> r.err,
                      f |-> IF r.err = "config" THEN Absent ELSE spFile]
    /\ UNCHANGED <<swPc, swBuf, swPos, swDurable, spFile, spConfig, spH, SwSpFixed, SwOthers>>

\* ------------------------------------------------ the stores, side by side

OldIdle == PtvIdle /\ TcIdle /\ DnIdle /\ TxIdle

RestIdle == CoIdle /\ CvIdle /\ DrIdle /\ SwIdle

ExtIdle == GlIdle /\ DvIdle /\ SpIdle /\ RestIdle

InitPtv == PtvStart /\ TcIdle /\ DnIdle /\ TxIdle /\ ExtIdle

InitTc == PtvIdle /\ TcStart /\ DnIdle /\ TxIdle /\ ExtIdle

InitDn == PtvIdle /\ TcIdle /\ DnStart /\ TxIdle /\ ExtIdle

InitTx == PtvIdle /\ TcIdle /\ DnIdle /\ TxStart /\ ExtIdle

InitTcCreate == PtvIdle /\ TcCreateStart /\ DnIdle /\ TxIdle /\ ExtIdle

\* Every store, each call a whole step
Init == InitPtv \/ InitTc \/ InitDn \/ InitTx

Next ==
    \/ PtvOpen
    \/ TcOpen
    \/ \E key \in DnKeys : DnDelete(key)
    \/ DnReopen
    \/ \E idx \in TxKeys : TxRemove(idx)
    \/ TxFlush
    \/ TxReopen

Spec == Init /\ [][Next]_vars

\* One process at a time opens the point-to-values file and may be killed
\* inside the migration
NextPtvCrash ==
    \/ ThrStart(1, MaxOpens)
    \/ ThrStep(1)
    \/ ThrFinish(1)
    \/ ThrInterrupt(1)
    \/ ThrClose(1)

SpecPtvCrash == InitPtv /\ [][NextPtvCrash]_vars

\* Two threads of one process open the point-to-values file, once each
NextPtvConc ==
    \E t \in Threads :
        \/ ThrStart(t, 1)
        \/ ThrStep(t)
        \/ ThrFinish(t)

SpecPtvConc == InitPtv /\ [][NextPtvConc]_vars

\* PointToTokensCount::create runs while a reader opens its target path
NextTcCreate == TcCreateStep \/ TcReaderOpen

SpecTcCreate == InitTcCreate /\ [][NextTcCreate]_vars

\* One process loading graph-links files, with its telemetry counters
InitGl == OldIdle /\ GlStart /\ DvIdle /\ SpIdle /\ RestIdle

NextGl ==
    \/ GlLoad
    \/ GlSparseFilenameMigration

SpecGl == InitGl /\ [][NextGl]_vars
\* Opens of point-to-values files: written by from_iter, or of any content
InitPtvFiles == PtvFilesStart /\ TcIdle /\ DnIdle /\ TxIdle /\ ExtIdle

NextPtvFiles == PtvOpen

SpecPtvFiles == InitPtvFiles /\ [][NextPtvFiles]_vars

\* Dense vectors: opens of the files found at the two paths
InitDv == OldIdle /\ GlIdle /\ DvStart /\ SpIdle /\ RestIdle

NextDv == DvOpen

SpecDv == InitDv /\ [][NextDv]_vars

\* The three stores, each opened over a file cut short of its header
InitTrunc ==
    \/ PtvTruncStart /\ TcIdle /\ DnIdle /\ TxIdle /\ ExtIdle
    \/ PtvIdle /\ TcTruncStart /\ DnIdle /\ TxIdle /\ ExtIdle
    \/ OldIdle /\ GlIdle /\ DvTruncStart /\ SpIdle /\ RestIdle

NextTrunc == PtvOpen \/ TcOpen \/ DvOpen

SpecTrunc == InitTrunc /\ [][NextTrunc]_vars

\* Sparse index: an index saved, loaded and read; the file damaged in between
InitSp == OldIdle /\ GlIdle /\ DvIdle /\ SpStart /\ RestIdle

NextSp == SpConvertAndSave \/ SpDamageFile \/ SpLoad \/ SpGet \/ SpDecodeRaw

SpecSp == InitSp /\ [][NextSp]_vars

\* Token counts: the byte-order detection applied to legacy files
InitTcDetect == PtvIdle /\ TcDetectStart /\ DnIdle /\ TxIdle /\ ExtIdle

NextTcDetect == TcDetect

SpecTcDetect == InitTcDetect /\ [][NextTcDetect]_vars

\* Token counts: whole opens of legacy and new-format files, one after another
InitTcOpen == PtvIdle /\ TcStart /\ DnIdle /\ TxIdle /\ ExtIdle

NextTcOpen == TcOpen

SpecTcOpen == InitTcOpen /\ [][NextTcOpen]_vars

\* Token counts: two calls of open on one legacy file, step by step in any
\* interleaving, one after the other included
InitTcConc ==
    PtvIdle /\ CoStart /\ DnIdle /\ TxIdle /\ GlIdle /\ DvIdle /\ SpIdle /\ CvIdle /\ DrIdle
        /\ SwIdle

NextTcConc ==
    \E t \in Openers :
        \/ CoStat(t)
        \/ CoSniff(t)
        \/ CoMap(t)
        \/ CoMigrate(t)
        \/ CoSave(t)
        \/ CoFinal(t)

SpecTcConc == InitTcConc /\ [][NextTcConc]_vars

CvRestIdle == OldIdle /\ GlIdle /\ DvIdle /\ SpIdle /\ CoIdle /\ DrIdle /\ SwIdle

\* stable_hash and StableHashed::hash on scalars and pairs
InitStableHash == CvRestIdle /\ CvHashStart

NextStableHash == CvStableHash \/ CvHash

SpecStableHash == InitStableHash /\ [][NextStableHash]_vars

\* to_le_storage and from_le_storage on the elements of mapped vectors
InitLeStorage == CvRestIdle /\ CvStorageStart

NextLeStorage == CvToLeStorage \/ CvFromLeStorage

SpecLeStorage == InitLeStorage /\ [][NextLeStorage]_vars

\* Dense vectors: one file opened on both hosts and read vector by vector
InitDenseRead == OldIdle /\ GlIdle /\ DrStart /\ SpIdle /\ CoIdle /\ CvIdle /\ SwIdle

NextDenseRead ==
    \/ DrOpen
    \/ \E key \in DrKeys, P \in AccessPatterns : DrGetVectorOpt(key, P)

SpecDenseRead == InitDenseRead /\ [][NextDenseRead]_vars

\* Sparse index: convert_and_save into an empty directory, step by step,
\* cut short by a crash at any point, with loads at any point
InitSpSave == OldIdle /\ GlIdle /\ DvIdle /\ SwStart /\ CoIdle /\ CvIdle /\ DrIdle

NextSpSave ==
    \/ SwCreate
    \/ SwHeaders
    \/ SwUnwind
    \/ SwPayloads
    \/ SwSpill
    \/ SwFlush
    \/ SwSync
    \/ SwConfig
    \/ SwCrash
    \/ SwLoad

SpecSpSave == InitSpSave /\ [][NextSpSave]_vars


\* ------------------------------------------- point-to-values: properties

\* The file after the i-th logged open
PtvAfter(i) == IF i < Len(ptvLog) THEN ptvLog[i + 1].before ELSE ptvFile

TcAfter(i) == IF i < Len(tcLog) THEN tcLog[i + 1].before ELSE tcFile

\* C1: a migration that was interrupted after some of its byte swaps never
\* makes a later open accept a partially swapped file: whenever an open has
\* returned a handle, the file is the fully canonical file of its input.
C1_NoPartialFileAccepted ==
    \A t \in Threads :
        (ptvThr[t].pc = "done" /\ ptvThr[t].h.status = "ok")
            => ptvFile = from_iter(ptvT, ptvIter).f

\* C2: after the first open of a legacy file has succeeded, every later open
\* succeeds on the fast path, leaves the file bytes as they were and returns
\* the values of the first open (point-to-values file and counts file).
C2_MigrationOneShot ==
    /\ \A i \in 2..Len(ptvLog) :
           (ptvLog[1].h.status = "ok" /\ ptvLog[1].h.path = "migrated")
               => /\ ptvLog[i].h.status = "ok"
                  /\ ptvLog[i].h.path = "fast"
                  /\ PtvAfter(i) = ptvLog[i].before
                  /\ ptvLog[i].served = ptvLog[1].served
    /\ \A i \in 2..Len(tcLog) :
           (tcLog[1].h.status = "ok" /\ tcLog[1].h.path = "migrated")
               => /\ tcLog[i].h.status = "ok"
                  /\ tcLog[i].h.path = "fast"
                  /\ TcAfter(i) = tcLog[i].before
                  /\ tcLog[i].vec = tcLog[1].vec

C2_Witness ==
    /\ Len(ptvLog) = MaxOpens
    /\ ptvLog[1].h.status = "ok"
    /\ ptvLog[1].h.path = "migrated"
    /\ ptvLog[1].served[0].vals # <<>>

\* C3: when two opens of one file run concurrently and both have returned,
\* the file is fully canonical (nothing swapped twice) and both handles
\* serve the original values.
C3_ConcurrentOpensMigrateOnce ==
    (\A t \in Threads : ptvThr[t].pc = "done")
        => /\ ptvFile = from_iter(ptvT, ptvIter).f
           /\ \A t \in Threads :
                  /\ ptvThr[t].h.status = "ok"
                  /\ Served(ptvT, ptvHost, ptvFile, ptvThr[t].h)
                         = Original(ptvIter)

\* C4: an open of the target path of PointToTokensCount::create, during
\* the creation or after it failed, succeeds only on the complete artifact.
C4_CreateIsAtomic ==
    \A i \in 1..Len(tcLog) :
        tcLog[i].h.status = "ok"
            => /\ AllFitU32(tcCounts)
               /\ tcLog[i].before = CreatedFile(tcCounts)

\* C5: the first open of a legacy big-endian point-to-values file succeeds,
\* serves the original values of every point in order, and leaves 4096 and
\* points_count little-endian in the bytes [0..8) and [8..16).
C5_LegacyBeMigrates ==
    (ptvWritten = "big" /\ Len(ptvLog) >= 1)
        => /\ ptvLog[1].h.status = "ok"
           /\ ptvLog[1].served = Original(ptvIter)
           /\ Bytes(PtvAfter(1), 0, 8) = ToLE(PADDING_SIZE, 8)
           /\ Bytes(PtvAfter(1), 8, 8) = ToLE(MaxPointsCount(ptvIter), 8)

C5_Witness ==
    /\ ptvWritten = "big"
    /\ Len(ptvLog) >= 1
    /\ ptvLog[1].h.path = "migrated"
    /\ Len(ptvIter) = MaxPoints
    /\ \A p \in 1..MaxPoints : Len(ptvIter[p].vals) = MaxValues

\* C6: the first open of a legacy counts file whose n counts all fit in u32,
\* written in either byte order, succeeds with len() = n and the original
\* counts, and leaves the new-format file of size 16 + 4n.
C6_LegacyCountsMigrate ==
    (tcWritten \in Endians /\ AllFitU32(tcCounts) /\ Len(tcLog) >= 1)
        => /\ tcLog[1].h.status = "ok"
           /\ tcLog[1].h.len = Len(tcCounts)
           /\ tcLog[1].vec = tcCounts
           /\ TcAfter(1) = NewFormatFile(Len(tcCounts),
                  [i \in 0..(Len(tcCounts) - 1) |-> U32LeBytes(tcCounts[i + 1])])

\* C7: the first open of a legacy counts file holding a count above
\* u32::MAX fails.
C7_OverflowFailsMigration ==
    (tcWritten \in Endians /\ ~AllFitU32(tcCounts) /\ Len(tcLog) >= 1)
        => tcLog[1].h.status = "err"

\* ----------------------------------------------- dense vectors: properties

\* C8: deleted_count is the number of set bits among the first num_vectors
\* bits, and a delete that returned returned true exactly when the bit was
\* clear, then adding one to deleted_count and otherwise leaving it.
C8_DeletionBookkeeping ==
    dnNum # NoStore
        => /\ dnCount = Cardinality({i \in dnBits : i < dnNum})
           /\ dnLast.ret \in {"true", "false"}
                  => /\ (dnLast.ret = "true") <=> ~dnLast.was
                     /\ dnCount = IF dnLast.ret = "true"
                                  THEN dnLast.count0 + 1 ELSE dnLast.count0

\* ---------------------------------------------- full-text index: properties

\* p's deletion bit is set, as the handle sees it
DeletedBit(p) ==
    p < TxBitLen(Len(txCounts)) /\ p \in (txBits \cup txPending)

\* The same in the state a step leads to
DeletedBitNext(p) ==
    p < TxBitLen(Len(txCounts')) /\ p \in (txBits' \cup txPending')

\* The step is a call of remove
RemoveCalled == txLast'.seq = txLast.seq + 1

\* What every call of remove does apart from the counter
RemoveEffect ==
    LET p == txLast'.p
        ret == txLast'.ret
    IN  /\ ret = "true"
            => /\ DeletedBitNext(p)
               /\ \A q \in 1..Len(txCounts) :
                      txCounts'[q] = IF q = p + 1 THEN 0 ELSE txCounts[q]
        /\ ret = "false"
            => UNCHANGED <<txCounts, txBits, txPending, txActive>>

C10_DeletedStayInvisible ==
    /\ [](txAlive
            => \A p \in TxKeys :
                   DeletedBit(p)
                       => /\ \A q \in ParsedQueries :
                                 p \notin filter(q) /\ ~check_match(q, p)
                          /\ values_count(p) = 0
                          /\ values_is_empty(p))
    /\ [][txGen' = txGen
             => \A p \in TxKeys : DeletedBit(p) => DeletedBitNext(p)]_vars

C10_Witness ==
    /\ txAlive
    /\ txHasPos
    /\ txLast.ret = "true"
    /\ txLast.p < Len(txDocs)
    /\ Len(txDocs[txLast.p + 1]) > 1
    /\ DeletedBit(txLast.p)

\* =========================================================== graph links

C13_PointToValuesRoundTrip ==
    (ptvWritten = "little" /\ Len(ptvLog) >= 1)
        => /\ ptvLog[1].h.status = "ok"
           /\ ptvLog[1].h.header.points_count = MaxPointsCount(ptvIter)
           /\ \A p \in 0..MaxPoints : ptvLog[1].served[p] = PtvExpected(ptvIter)[p]

\* Geo values written for point 1 only: point 0 reads back empty
C13_Witness ==
    /\ ptvT = "geo"
    /\ ptvHost = "big"
    /\ ptvWritten = "little"
    /\ Len(ptvIter) = 1
    /\ ptvIter[1].id = 1
    /\ Len(ptvIter[1].vals) = MaxValues
    /\ Len(ptvLog) >= 1
    /\ ptvLog[1].served[0] = [some |-> TRUE, vals |-> <<>>]
    /\ ptvLog[1].served[1] = [some |-> TRUE, vals |-> ptvIter[1].vals]

\* How open number i treated the file it found, whose first 8 bytes are first
PtvClassifiedByFirst8(i) ==
    LET before == ptvLog[i].before
        first == Bytes(before, 0, 8)
    IN  IF first = ToLE(PADDING_SIZE, 8)
        THEN /\ ptvLog[i].h.status = "ok"
             /\ ptvLog[i].h.path = "fast"
             /\ PtvAfter(i) = before
        ELSE IF first = ToBE(PADDING_SIZE, 8)
        THEN ptvLog[i].h.path = "migrated"
        ELSE /\ ptvLog[i].h.status = "err"
             /\ ptvLog[i].h.path = "reject"
             /\ PtvAfter(i) = before

\* C19 as stated: open classifies a file by its first 8 bytes only: 4096
\* little-endian takes the fast path without writing, otherwise 4096
\* big-endian runs the in-place migration, anything else is rejected as
\* corrupt without being modified.
C19_ClassifiedByFirst8Only ==
    \A i \in 1..Len(ptvLog) : PtvClassifiedByFirst8(i)

\* C19: a file of at least 16 bytes is classified by its first 8 bytes as
\* stated; a file shorter than the 16-byte header is rejected without being
\* modified, whatever its first 8 bytes are.
C19_ClassifiedByFirst8OfHeader ==
    \A i \in 1..Len(ptvLog) :
        IF ptvLog[i].before.len >= HeaderDiskSize
        THEN PtvClassifiedByFirst8(i)
        ELSE /\ ptvLog[i].h.status = "err"
             /\ ptvLog[i].h.path = "reject"
             /\ PtvAfter(i) = ptvLog[i].before

\* A whole file whose first 8 bytes read 4096 little-endian while the rest
\* of it is still big-endian takes the fast path
C19_Witness ==
    /\ ptvWritten = "crafted"
    /\ Len(ptvLog) >= 1
    /\ ptvLog[1].before.len > PADDING_SIZE
    /\ Bytes(ptvLog[1].before, 0, 8) = ToLE(PADDING_SIZE, 8)
    /\ Bytes(ptvLog[1].before, 8, 8) = ToBE(1, 8)
    /\ ptvLog[1].h.path = "fast"

\* C17: an open of the dense vectors store that succeeds was given a vectors
\* file of at least 4 bytes that starts with "data", a non-zero
\* dim * size_of::<T>() that divides the payload length, and leaves a deleted
\* file that starts with "drop" (a deleted file that was already there
\* started with it); the handle has num_vectors * dim * size_of::<T>() + 4
\* equal to the file size, so a header-only file opens with no vector.
C17_DenseOpenChecksLayout ==
    \A i \in 1..Len(dvLog) :
        LET c == dvLog[i]
            vector_bytes == dvDim * dvElem
        IN  c.err = "none" =>
                /\ c.vectors.len >= HEADER_SIZE
                /\ Bytes(c.vectors, 0, HEADER_SIZE) = VECTORS_HEADER
                /\ c.vectors_before # Absent => c.vectors_before = c.vectors
                /\ vector_bytes # 0
                /\ (c.vectors.len - HEADER_SIZE) % vector_bytes = 0
                /\ Bytes(c.deleted, 0, HEADER_SIZE) = DELETED_HEADER
                /\ c.deleted_before # Absent =>
                       /\ c.deleted_before.len >= HEADER_SIZE
                       /\ Bytes(c.deleted_before, 0, HEADER_SIZE) = DELETED_HEADER
                /\ c.num_vectors * vector_bytes + HEADER_SIZE = c.vectors.len
                /\ c.vectors.len = HEADER_SIZE => c.num_vectors = 0

\* A file of MaxVectors vectors opened twice: the first open creates the
\* deleted file, the second finds it there
C17_Witness ==
    /\ Len(dvLog) = 2
    /\ dvLog[1].err = "none"
    /\ dvLog[2].err = "none"
    /\ dvLog[2].num_vectors = MaxVectors
    /\ dvLog[2].vectors.len = HEADER_SIZE + MaxVectors * dvDim * dvElem
    /\ dvLog[1].deleted_before = Absent
    /\ dvLog[2].deleted_before # Absent

\* C16: an open of the dense vectors file, of the point-to-values file or of
\* the token-counts file over a file of fewer bytes than the store's header
\* (4, 16 and 16 bytes, 0 bytes included) fails with an error.
C16_TruncatedHeaderRejected ==
    /\ \A i \in 1..Len(dvLog) :
           (dvLog[i].vectors_before # Absent
                /\ dvLog[i].vectors_before.len < StoreHeaderSize.dense)
               => dvLog[i].err # "none"
    /\ \A i \in 1..Len(ptvLog) :
           ptvLog[i].before.len < StoreHeaderSize.ptv => ptvLog[i].h.status = "err"
    /\ \A i \in 1..Len(tcLog) :
           tcLog[i].before.len < StoreHeaderSize.counts => tcLog[i].h.status = "err"

\* C15: the file convert_and_save wrote, decoded field by field as
\* little-endian with decode_postings_le, and loaded again and read with get,
\* gives for every posting of the in-memory index the same id data, chunks,
\* remainders, last id and quantization parameters, on either host.
C15_SparseRoundTrip ==
    spKind = "saved" =>
        /\ spLast.op = "decode" =>
               spLast.ret = "none" /\ spLast.postings = spIndex
        /\ spLast.op = "load" => spLast.ret = "ok"
        /\ (spLast.op = "get" /\ spLast.id < Len(spIndex)) =>
               spLast.ret = "some" /\ spLast.postings[1] = spIndex[spLast.id + 1]

\* The condition under which a data file has to be rejected: the header table
\* exceeds the file, a posting breaks ids_start <= ids_end <= chunks_end <=
\* the next ids_start (the file length for the last posting), or a remainder
\* region is not a whole number of posting elements
SpViolates(W, f, posting_count) ==
    LET hs == SpHeaderSize(W)
        header(i) == decode_posting_header_le(W, Bytes(f, i * hs, hs))
        ids_end(i) == header(i).ids_start + header(i).ids_len
        chunks_end(i) == ids_end(i) + SpChunkSize(W) * header(i).chunks_count
        next(i) == IF i + 1 < posting_count THEN header(i + 1).ids_start ELSE f.len
    IN  \/ posting_count * hs > f.len
        \/ \E i \in 0..(posting_count - 1) :
               \/ ~(header(i).ids_start <= ids_end(i) /\ ids_end(i) <= chunks_end(i)
                        /\ chunks_end(i) <= next(i))
               \/ (next(i) - chunks_end(i)) % SpRemainderSize(W) # 0

\* C18: a load of a sparse index file that breaks the posting boundaries,
\* whose header table exceeds the file or whose remainder region is not a
\* whole number of elements returns an error, and no get on such a file
\* returns a posting.
C18_CorruptSparseRejected ==
    (spFile # Absent /\ spConfig # NoConfig
         /\ SpViolates(spW, spFile, spConfig.posting_count)) =>
        /\ spLast.op = "load" => spLast.ret = "err"
        /\ spLast.op = "get" => spLast.ret # "some"

\* C30: an open of the dense vectors store that returns an error leaves the
\* disk as it found it: the vectors file and the deleted file are neither
\* created nor resized nor modified.
C30_FailedDenseOpenNoEffect ==
    \A i \in 1..Len(dvLog) :
        dvLog[i].err # "none" =>
            /\ dvLog[i].vectors = dvLog[i].vectors_before
            /\ dvLog[i].deleted = dvLog[i].deleted_before

\* The other byte order
OtherEndian(e) == IF e = "little" THEN "big" ELSE "little"

\* C21: over the first min(len, 256) words of the file the detection returns
\* the byte order under which fewer words exceed u32::MAX, on a tie the one
\* with the smaller maximum, and on a perfect tie (an empty or all-zero file
\* included) the host's byte order; words after the first 256 do not count.
\* The words are taken from the counts the file was written from: read in the
\* writer's byte order a word is the count, read in the other it is the
\* count with its bytes reversed.
C21_DetectionRule ==
    \A i \in 1..Len(tcLog) :
        tcLog[i].h.status = "detected" =>
            LET n == IF Len(tcCounts) < SampleLimit THEN Len(tcCounts) ELSE SampleLimit
                same == {tcCounts[k] : k \in 1..n}
                swapped == {Reverse(tcCounts[k]) : k \in 1..n}
                over_same == Cardinality({k \in 1..n : OverU32(tcCounts[k])})
                over_swapped == Cardinality({k \in 1..n : OverU32(Reverse(tcCounts[k]))})
                expected ==
                    IF over_same < over_swapped THEN tcWritten
                    ELSE IF over_swapped < over_same THEN OtherEndian(tcWritten)
                    ELSE IF UsizeLess(UsizeMax(same), UsizeMax(swapped)) THEN tcWritten
                    ELSE IF UsizeLess(UsizeMax(swapped), UsizeMax(same))
                    THEN OtherEndian(tcWritten)
                    ELSE tcHost
            IN  /\ tcLog[i].h.path = expected
                /\ tcLog[i].h.path =
                       detect_legacy_counts_endian(
                           Truncate(tcLog[i].before, n * WordSize), tcHost)

\* A file of 256 zero words and one count after them, written in the byte
\* order that is not the host's: the detection returns the host's order
C21_Witness ==
    /\ Len(tcLog) = 1
    /\ tcLog[1].h.status = "detected"
    /\ Len(tcCounts) = SampleLimit + 1
    /\ tcCounts[SampleLimit + 1] # Zeros(WordSize)
    /\ tcWritten # tcHost
    /\ tcLog[1].h.path = tcHost

\* C27: with 8-byte words, no open of a legacy counts file whose counts all
\* fit in u32 returns other counts than those written, whatever the byte
\* order of the file, the host and the detected order: an open that does not
\* fail returns exactly the original counts.
C27_NoSilentCountChange ==
    (tcWritten \in Endians /\ AllFitU32(tcCounts))
        => \A i \in 1..Len(tcLog) :
               tcLog[i].h.status = "ok"
                   => /\ tcLog[i].h.len = Len(tcCounts)
                      /\ tcLog[i].vec = tcCounts

\* A legacy file of fitting counts, not all zero, in the byte order that is
\* not the host's, was migrated and opened with its counts; a later open
\* took the fast path
C27_Witness ==
    /\ tcWritten \in Endians
    /\ tcWritten # tcHost
    /\ AllFitU32(tcCounts)
    /\ \E k \in 1..Len(tcCounts) : tcCounts[k] # Zeros(WordSize)
    /\ Len(tcLog) = 2
    /\ tcLog[1].h.status = "ok" /\ tcLog[1].h.path = "migrated"
    /\ tcLog[1].vec = tcCounts
    /\ tcLog[2].h.status = "ok" /\ tcLog[2].h.path = "fast"

\* C28: when two opens of one legacy counts file that a lone open migrates
\* run side by side, both succeed and return the written counts, the file
\* ends in the new format, and neither maps and migrates the file the other
\* has already migrated.
C28_ConcurrentOpensSucceed ==
    (/\ tcOrig = LegacyCountsFile(tcCounts, tcWritten)
     /\ AllFitU32(tcCounts)
     /\ TcOpenCall(tcOrig, tcHost).h.status = "ok"
     /\ \A t \in Openers : tcOpens[t].pc = "done")
        => /\ \A t \in Openers :
                  /\ tcOpens[t].h.status = "ok"
                  /\ tcOpens[t].vec = tcCounts
                  /\ tcOpens[t].map \in {Absent, tcOrig}
           /\ tcFile = NewFormatFile(Len(tcCounts),
                  [i \in 0..(Len(tcCounts) - 1) |-> U32LeBytes(tcCounts[i + 1])])

\* Opener t returned the error of an aborted migration
Aborted(t) == tcOpens[t].pc = "done" /\ tcOpens[t].h.path = "aborted"

\* C24: the step in which migrate_legacy aborts (a count over u32::MAX, or
\* a file size that is no multiple of the word size) leaves the file at the
\* path as it was and no temporary file of that call, and the call returns
\* an error; while every call that has begun has ended so, the file at the
\* path is still the legacy file as it was before the first open, which is
\* what the next open maps.
C24_AbortedMigrationKeepsLegacyFile ==
    /\ [][\A t \in Openers :
            (tcOpens[t].pc \in {"migrate", "save"} /\ tcOpens'[t].pc = "done")
                => /\ tcFile' = tcFile
                   /\ tcOpens'[t].tmp = Absent
                   /\ tcOpens'[t].h.status = "err"]_vars
    /\ [](\A t \in Openers :
            (Aborted(t) /\ \A u \in Openers : tcOpens[u].pc = "stat" \/ Aborted(u))
                => /\ tcFile = tcOrig
                   /\ tcOpens[t].map = tcOrig
                   /\ tcOpens[t].tmp = Absent)

\* A legacy file of whole words was opened twice, the second time after the
\* first open had returned or alongside it: both migrations wrote to a
\* temporary file, met a count over u32::MAX and aborted
C24_Witness ==
    /\ tcOrig.len > 0
    /\ tcOrig.len % WordSize = 0
    /\ \A t \in Openers :
           /\ Aborted(t)
           /\ tcOpens[t].map = tcOrig
           /\ ~tcOpens[t].wrote
    /\ tcFile = tcOrig

\* The little-endian bytes of a scalar as the claim gives them: sizeof(v)
\* bytes, 8 for a usize, the k-th byte being the k-th least significant one
LittleEndianBytes(x) ==
    LET n == IF x.ty = "usize" THEN 8 ELSE ScalarSize(x.ty, cvWord)
    IN  [k \in 1..n |-> IF k <= Len(x.v) THEN x.v[Len(x.v) + 1 - k] ELSE 0]

\* The byte stream of a scalar, or of a pair of scalars
StableStream(x) ==
    IF x.ty = "pair"
    THEN LittleEndianBytes(x.v[1]) \o LittleEndianBytes(x.v[2])
    ELSE LittleEndianBytes(x)

\* C22: stable_hash hands the sink exactly the little-endian bytes of the
\* value, sizeof(v) of them for an i32, u32 or u64 and the 8 bytes of the
\* u64 value for a usize, a's bytes then b's for a pair (a, b), and
\* StableHashed::hash feeds the hasher this stream and nothing else, on a
\* host of either byte order.
C22_StableHashLittleEndian ==
    /\ cvLast.op = "stable_hash"
           => /\ Flatten(cvLast.writes) = StableStream(cvValue)
              /\ cvValue.ty # "pair"
                     => /\ Len(cvLast.writes) = 1
                        /\ Len(cvLast.writes[1]) =
                               IF cvValue.ty = "usize" THEN 8
                               ELSE ScalarSize(cvValue.ty, cvWord)
    /\ cvLast.op = "hash"
           => cvLast.fed = StableStream(cvValue)

\* On a big-endian host with 4-byte words the pair (0x01020304 usize,
\* 0x11223344 i32) was hashed: twelve bytes, the usize widened to a u64
C22_Witness ==
    /\ cvHost = "big"
    /\ cvWord = 4
    /\ cvValue = [ty |-> "pair", v |-> <<[ty |-> "usize", v |-> <<1, 2, 3, 4>>],
                                         [ty |-> "i32", v |-> <<17, 34, 51, 68>>]>>]
    /\ cvLast.op = "hash"
    /\ cvLast.fed = <<4, 3, 2, 1, 0, 0, 0, 0, 68, 51, 34, 17>>

\* The bytes of v in the reverse order
Swapped(v) == [k \in 1..Len(v) |-> v[Len(v) + 1 - k]]

\* C23: from_le_storage(to_le_storage(v)) is v, bit for bit, for every
\* supported scalar type: on a little-endian host to_le_storage returns v,
\* on a big-endian host v with its bytes swapped, and from_le_storage undoes
\* it; a u8 is returned as it is on both hosts.
C23_LeStorageRoundTrip ==
    /\ cvLast.op \in {"to_le_storage", "from_le_storage"}
           => cvLast.stored =
                  IF cvHost = "big" /\ cvValue.ty # "u8"
                  THEN Swapped(cvValue.v) ELSE cvValue.v
    /\ cvLast.op = "from_le_storage"
           => cvLast.back = cvValue.v

\* On a big-endian host the f32 123.456 (bits 0x42F6E979) was stored with
\* its bytes swapped and read back
C23_Witness ==
    /\ cvHost = "big"
    /\ cvValue = [ty |-> "f32", v |-> <<66, 246, 233, 121>>]
    /\ cvLast.op = "from_le_storage"
    /\ cvLast.stored = <<121, 233, 246, 66>>
    /\ cvLast.back = <<66, 246, 233, 121>>

\* C25: over the same vectors-file bytes, get_vector_opt(key) on a
\* big-endian host returns the element values it returns on a little-endian
\* host, for the Random and for the Sequential access pattern: a vector of
\* dim elements for every key < num_vectors, None for every other key.
C25_DenseReadsHostEquivalent ==
    drLast.P # "none"
        => /\ drLast.ret["big"] = drLast.ret["little"]
           /\ \A host \in Endians :
                  IF drLast.key < drH[host].num_vectors
                  THEN /\ drLast.ret[host].some
                       /\ Len(drLast.ret[host].v) = dvDim
                  ELSE drLast.ret[host] = NoVector

\* The second of two f32 vectors of two elements was read with the
\* Sequential pattern: on the big-endian host it came from the cache, and
\* its first element is not the one a read of the stored bytes as they are
\* would give
C25_Witness ==
    /\ dvElem = 4 /\ dvDim = 2
    /\ drH["big"].num_vectors = 2
    /\ drH["big"].decoded_vectors.some
    /\ ~drH["little"].decoded_vectors.some
    /\ drLast.key = 1 /\ drLast.P = "Sequential"
    /\ drLast.ret["big"].some
    /\ drLast.ret["big"].v[1] = Reverse(Bytes(dvVectors, HEADER_SIZE + 8, 4))
    /\ drLast.ret["big"].v[1] # Bytes(dvVectors, HEADER_SIZE + 8, 4)

\* C26: points_count() is the number of point ids below
\* point_to_tokens_count.len() whose deletion bit is clear, after open, after
\* every remove and after a flush and a re-open of the same files, and the
\* subtraction in open does not underflow: no open panics or returns a
\* wrapped count.
C26_PointsCountIsLivePoints ==
    txGen > 0
        => /\ txAlive \/ txLast.ret = "panic"
           /\ txAlive => txActive =
                  Cardinality({p \in 0..(Len(txCounts) - 1) : ~DeletedBit(p)})

\* C29: convert_and_save into an empty directory saves the config only
\* after the whole data file (header table, then payloads) is written,
\* flushed and synced, so a load that got past reading the config mapped the
\* complete data file, of length posting_count * header size plus the stored
\* sizes of the postings; and whenever the config exists, the data file at
\* the path and on stable storage is that complete file.
C29_ConfigOnlyAfterCompleteData ==
    LET complete == FileOf(SpIndexBytes(spW, spIndex, spHost, spPad))
        length == Len(spIndex) * SpHeaderSize(spW)
                      + Sum([k \in 1..Len(spIndex) |->
                                SpStoreSize(spW, spIndex[k]).total])
    IN  /\ (swSeen.status # "none" /\ swSeen.err # "config")
               => /\ swSeen.f = complete
                  /\ swSeen.f.len = length
        /\ (swPc # "none" /\ spConfig # NoConfig)
               => /\ spFile = complete
                  /\ swDurable = complete
                  /\ spConfig.posting_count = Len(spIndex)

\* An index of two postings was saved and then loaded: the load read the
\* config and mapped the complete file
C29_Witness ==
    /\ swPc = "done"
    /\ Len(spIndex) = 2
    /\ swSeen.status = "ok"
    /\ swSeen.f = spFile
    /\ spFile.len > 2 * SpHeaderSize(spW)
    /\ swDurable = spFile

====
